---------------------------- MODULE Spec2Model ----------------------------
(***************************************************************************)
(* Model of the TVK6 console core: ScreenEmulator (screen_emulator.py),   *)
(* StateManager (state_manager.py), SequenceManager (sequence_manager.py), *)
(* ProtocolSequenceManager (protocol_sequence_manager.py), MenuManager     *)
(* (menu_manager.py), SerialWorker (serial_worker.py) and the slots of     *)
(* MainWindow (main_window.py) that connect them.                          *)
(*                                                                         *)
(* A character is a TLA+ string; the escape introducer 0x1B is written     *)
(* "ESC".  A Python str is a sequence of characters.  Python's 0-based     *)
(* indices are kept for rows and columns of the grid; sequences of         *)
(* characters are indexed from 1 as TLA+ requires.                         *)
(***************************************************************************)
EXTENDS Integers, Sequences, FiniteSets, TLC

VARIABLES
    screen,                  \* ScreenEmulator.screen: rows x cols cells
    cursor_pos,              \* ScreenEmulator.cursor_pos: <<row, col>>
    incomplete_data_buffer,  \* ScreenEmulator.incomplete_data_buffer
    raised,                  \* exception that ended the last call, or "none"
    op,                      \* the last operation performed
    arg,                     \* the argument of the last process_data call
    ret,                     \* what the last operation returned (<<>>: None)
    pre,                     \* grid, cursor, buffer, op and ret before it
    start,                   \* the emulator a received stream is fed to
    stream,                  \* the characters received from the port
    pending,                 \* those not yet given to process_data
    config,                  \* StateManager.config, as _load_config left it
    current_state,           \* StateManager.current_state
    history,                 \* StateManager.history
    parsed_values,           \* StateManager.parsed_values
    events,                  \* signals and menu calls of the last operation
    sm_raised,               \* exception that ended it, or "none"
    sm_op,                   \* the last StateManager operation
    sm_arg,                  \* its argument (a screen text or a command)
    sm_pre,                  \* the StateManager before it
    command_queue,           \* SequenceManager.command_queue
    timer,                   \* SequenceManager.timer is armed
    seq_out,                 \* signals emitted since the last start_sequence
    seq_commands,            \* the argument of the last start_sequence
    seq_op,                  \* the last SequenceManager step
    seq_pre,                 \* seq_out before that step
    field_queue,             \* ProtocolSequenceManager.field_queue
    char_queue,              \* ProtocolSequenceManager.char_queue
    char_timer,              \* ProtocolSequenceManager.char_timer is armed
    field_timer,             \* ProtocolSequenceManager.field_timer is armed
    pseq_out,                \* signals emitted by the protocol sequencer
    pseq_fields,             \* the argument of its start_sequence
    pseq_op,                 \* the last ProtocolSequenceManager step
    pseq_pre,                \* pseq_out before that step
    port_text,               \* the text decoded from the bytes read so far
    inbox,                   \* data_received emitted, display_data not yet run
    handed,                  \* the chunks given to process_data, concatenated
    processing_timer,        \* MainWindow.processing_timer: time left
    age,                     \* time since the last display_data, capped
    menu_state,              \* MenuManager.current_state
    current_menu_options,    \* MenuManager.current_menu_options
    buttons,                 \* MenuManager.buttons: the options drawn
    rebuilt,                 \* the last MenuManager call drew the buttons anew
    menu_op,                 \* the last MenuManager call
    menu_arg,                \* its argument (a screen or a state name)
    menu_pre,                \* the MenuManager before it
    port_open,               \* SerialWorker.serial_port exists and is open
    outbox,                  \* send_to_worker emitted, write_command not yet run
    issued,                  \* the commands given to send_to_worker so far
    writes,                  \* the write_command calls made so far
    wire,                    \* the bytes written to the port so far
    last_send,               \* the last MainWindow.send_command call
    reconnect,               \* the last MainWindow.start_serial_worker call
    restarts                 \* start_sequence calls made on a running
                             \* ProtocolSequenceManager

emu_vars == <<screen, cursor_pos, incomplete_data_buffer, raised>>
obs_vars == <<op, arg, ret, pre>>
stream_vars == <<start, stream, pending>>
sm_vars == <<config, current_state, history, parsed_values, events, sm_raised>>
sm_obs_vars == <<sm_op, sm_arg, sm_pre>>
sm_all == <<sm_vars, sm_obs_vars>>
emu_all == <<emu_vars, obs_vars>>
seq_vars == <<command_queue, timer, seq_out, seq_commands, seq_op, seq_pre>>
\* the objects beside the emulator and the state manager
pseq_vars == <<field_queue, char_queue, char_timer, field_timer, pseq_out,
               pseq_fields, pseq_op, pseq_pre>>
pipe_vars == <<port_text, inbox, handed, processing_timer, age>>
menu_vars == <<menu_state, current_menu_options, buttons, rebuilt, menu_op,
               menu_arg, menu_pre>>
write_vars == <<port_open, outbox, issued, writes, wire>>
ui_vars == <<last_send, reconnect, restarts>>
aux_vars == <<seq_vars, pseq_vars, pipe_vars, menu_vars, write_vars, ui_vars>>
vars == <<screen, cursor_pos, incomplete_data_buffer, raised, op, arg, ret,
          pre, start, stream, pending, config, current_state, history,
          parsed_values, events, sm_raised, sm_op, sm_arg, sm_pre, aux_vars>>

---------------------------------------------------------------------------
(* Bounds of the exploration *)

\* grid size the emulator is constructed with (ScreenEmulator(rows, cols))
Rows == 2
Cols == 2
\* longest argument of one process_data call
MaxChunk == 1
\* longest carry-over buffer an input may leave behind
MaxBuf == 4
\* how many rows below the grid line feeds may push the cursor
MaxOverflow == 1
\* longest received text of the split-delivery specification
MaxStream == 3
\* longest navigation history the state manager is followed to
MaxHistory == 4

---------------------------------------------------------------------------
(* Characters *)

ESC == "ESC"
LF == "\n"
CR == "\r"
\* shift out 0x0E, shift in 0x0F, bell 0x07
SO == "SO"
SI == "SI"
BEL == "BEL"
\* characters of a CSI parameter run: data[i] in '0123456789;?'
Digits == {"0", "1", "2"}
ParamChars == Digits \cup {";", "?"}
\* data[i] in '#()'
CharsetIntro == {"#", "(", ")"}
\* char in '\x0e\x0f\r'
Ignored == {CR, SO, SI}
\* the characters the device prints as plain text
Text == {"A"}
Char == {ESC, "[", "H", "C", "D", "K", "m", LF} \cup ParamChars
            \cup {"("} \cup {CR} \cup Text

DigitVal(c) == CASE c = "0" -> 0 [] c = "1" -> 1 [] c = "2" -> 2

Min(a, b) == IF a < b THEN a ELSE b
Max(a, b) == IF a > b THEN a ELSE b

RowIdx == 0 .. (Rows - 1)
ColIdx == 0 .. (Cols - 1)

---------------------------------------------------------------------------
(* ScreenEmulator *)

BlankScreen == [r \in RowIdx |-> [c \in ColIdx |-> " "]]

\* the object after __init__
Fresh ==
    [screen |-> BlankScreen, cursor_pos |-> <<0, 0>>,
     buf |-> <<>>, raised |-> "none"]

\* the emulator object as a record of the variables
Emu ==
    [screen |-> screen, cursor_pos |-> cursor_pos,
     buf |-> incomplete_data_buffer, raised |-> raised]

\* int(s) for a field of a parameter run; precondition: s holds digits only
RECURSIVE IntOf(_)
IntOf(s) ==
    IF s = <<>> THEN 0
    ELSE 10 * IntOf(SubSeq(s, 1, Len(s) - 1)) + DigitVal(s[Len(s)])

\* int(s) raises ValueError: some character of s is no digit
IntRaises(s) == \E k \in 1 .. Len(s) : s[k] \notin Digits

\* params_str.split(';')
RECURSIVE Split(_)
Split(s) ==
    IF \A k \in 1 .. Len(s) : s[k] # ";" THEN << s >>
    ELSE LET k == CHOOSE k \in 1 .. Len(s) :
                    s[k] = ";" /\ \A j \in 1 .. (k - 1) : s[j] # ";"
         IN  << SubSeq(s, 1, k - 1) >> \o Split(SubSeq(s, k + 1, Len(s)))

\* end of the parameter run that starts at index i: the first index at or
\* after i that holds no parameter character, Len(d) + 1 when there is none
RECURSIVE ParamEnd(_, _)
ParamEnd(d, i) ==
    IF i <= Len(d) /\ d[i] \in ParamChars THEN ParamEnd(d, i + 1) ELSE i

Raise(st, exc) == [st EXCEPT !.raised = exc]

\* command == 'H'
CursorPositionOneOff(st, params) ==
    IF params[1] # <<>> /\ IntRaises(params[1]) THEN Raise(st, "ValueError")
    ELSE IF Len(params) > 1 /\ params[2] # <<>> /\ IntRaises(params[2])
    THEN Raise(st, "ValueError")
    ELSE
        LET row == IF params[1] # <<>> THEN IntOf(params[1]) ELSE 0
            col == IF Len(params) > 1 /\ params[2] # <<>>
                   THEN IntOf(params[2]) ELSE 0
        IN  [st EXCEPT !.cursor_pos =
                << Max(0, Min(row, Rows - 1)), Max(0, Min(col, Cols - 1)) >>]
CursorPosition(st, params) ==
    IF params[1] # <<>> /\ IntRaises(params[1]) THEN Raise(st, "ValueError")
    ELSE IF Len(params) > 1 /\ params[2] # <<>> /\ IntRaises(params[2])
    THEN Raise(st, "ValueError")
    ELSE
        LET row == IF params[1] # <<>> THEN IntOf(params[1]) - 1 ELSE 0
            col == IF Len(params) > 1 /\ params[2] # <<>>
                   THEN IntOf(params[2]) - 1 ELSE 0
        IN  [st EXCEPT !.cursor_pos =
                << Max(0, Min(row, Rows - 1)), Max(0, Min(col, Cols - 1)) >>]

\* command == 'C'
CursorForward(st, params) ==
    IF params[1] # <<>> /\ IntRaises(params[1]) THEN Raise(st, "ValueError")
    ELSE
        LET num_cols == IF params[1] # <<>> THEN IntOf(params[1]) ELSE 1
        IN  [st EXCEPT !.cursor_pos[2] =
                Min(Cols - 1, st.cursor_pos[2] + num_cols)]

\* command == 'D'
CursorBackward(st, params) ==
    IF params[1] # <<>> /\ IntRaises(params[1]) THEN Raise(st, "ValueError")
    ELSE
        LET num_cols == IF params[1] # <<>> THEN IntOf(params[1]) ELSE 1
        IN  [st EXCEPT !.cursor_pos[2] = Max(0, st.cursor_pos[2] - num_cols)]

\* command == 'K': the loop over range(col, cols) indexes screen[row], which
\* raises IndexError when the range is not empty and row is no row of the grid
EraseInLineWholeRow(st, params_str) ==
    IF params_str = <<>> \/ params_str = << "0" >>
    THEN LET row == st.cursor_pos[1]
         IN  IF row \notin RowIdx THEN Raise(st, "IndexError")
             ELSE [st EXCEPT !.screen[row] = [c \in ColIdx |-> " "]]
    ELSE st
EraseInLineAnyParam(st, params_str) ==
    LET row == st.cursor_pos[1]
        col == st.cursor_pos[2]
    IN  IF col >= Cols THEN st
        ELSE IF row \notin RowIdx THEN Raise(st, "IndexError")
        ELSE [st EXCEPT !.screen[row] =
                 [c \in ColIdx |->
                     IF c >= col THEN " " ELSE st.screen[row][c]]]
EraseInLine(st, params_str) ==
    IF params_str = <<>> \/ params_str = << "0" >>
    THEN LET row == st.cursor_pos[1]
             col == st.cursor_pos[2]
         IN  IF col >= Cols THEN st
             ELSE IF row \notin RowIdx THEN Raise(st, "IndexError")
             ELSE [st EXCEPT !.screen[row] =
                      [c \in ColIdx |->
                          IF c >= col THEN " " ELSE st.screen[row][c]]]
    ELSE st

\* a complete CSI sequence: final character command, parameter run params_str
Dispatch(st, command, params_str) ==
    LET params == Split(params_str)
    IN  CASE command = "H" -> CursorPosition(st, params)
          [] command = "C" -> CursorForward(st, params)
          [] command = "D" -> CursorBackward(st, params)
          [] command = "K" -> EraseInLine(st, params_str)
          [] OTHER -> st

\* a character outside an escape sequence
OrdinaryAlwaysAdvances(st, char) ==
    IF char = LF THEN [st EXCEPT !.cursor_pos[1] = @ + 1]
    ELSE IF char \notin Ignored
    THEN LET row == st.cursor_pos[1]
             col == st.cursor_pos[2]
         IN  IF row < Rows /\ col < Cols
             THEN [st EXCEPT !.screen[row][col] = char,
                             !.cursor_pos[2] = @ + 1]
             ELSE [st EXCEPT !.cursor_pos[2] = @ + 1]
    ELSE st
Ordinary(st, char) ==
    IF char = LF THEN [st EXCEPT !.cursor_pos[1] = @ + 1]
    ELSE IF char \notin Ignored
    THEN LET row == st.cursor_pos[1]
             col == st.cursor_pos[2]
         IN  IF row < Rows /\ col < Cols
             THEN [st EXCEPT !.screen[row][col] = char,
                             !.cursor_pos[2] = @ + 1]
             ELSE st
    ELSE st

\* what is kept of an incomplete CSI sequence
StashCsiDropsParams(params_str) == << ESC, "[" >>
StashCsi(params_str) == << ESC, "[" >> \o params_str

\* the while loop of process_data from index i (1-based) of d
RECURSIVE Loop(_, _, _)
Loop(d, i, st) ==
    IF i > Len(d) THEN st
    ELSE IF d[i] = ESC
    THEN IF i + 1 > Len(d)
         THEN [st EXCEPT !.buf = << ESC >>]
         ELSE IF d[i + 1] = "["
         THEN LET j == ParamEnd(d, i + 2)
                  params_str == SubSeq(d, i + 2, j - 1)
              IN  IF j > Len(d)
                  THEN [st EXCEPT !.buf = StashCsi(params_str)]
                  ELSE LET r == Dispatch(st, d[j], params_str)
                       IN  IF r.raised # "none" THEN r
                           ELSE Loop(d, j + 1, r)
         ELSE IF d[i + 1] \in CharsetIntro
         THEN IF i + 2 > Len(d)
              THEN [st EXCEPT !.buf = << ESC, d[i + 1] >>]
              ELSE Loop(d, i + 3, st)
         ELSE Loop(d, i + 2, st)
    ELSE Loop(d, i + 1, Ordinary(st, d[i]))

\* process_data(chunk) on the object st
process_data(st, chunk) ==
    Loop(st.buf \o chunk, 1, [st EXCEPT !.buf = <<>>, !.raised = "none"])

\* reset() on the object st
ResetKeepsBuffer(st) == [Fresh EXCEPT !.buf = st.buf]
reset(st) == Fresh

\* "".join(row) for rows r .. Rows-1, joined by "\n"
RECURSIVE JoinRows(_, _)
JoinRows(scr, r) ==
    LET line == [k \in 1 .. Cols |-> scr[r][k - 1]]
    IN  IF r = Rows - 1 THEN line
        ELSE line \o << LF >> \o JoinRows(scr, r + 1)

get_screen_textSkipsFirstRow(st) == JoinRows(st.screen, Rows - 1)
get_screen_text(st) == JoinRows(st.screen, 0)

---------------------------------------------------------------------------
(* The configuration of the state table: config['states'] *)

\* the state names, in the order the configuration declares them
StateOrder ==
    << "MAIN_MENU", "ENTRADAS_MENU", "DATOS_MEDIDOR_MENU", "CALIBRAR_MENU",
       "CALIBRAR_DATA_ENTRY", "CALIBRAR_TABLE_VIEW" >>

ConfigStates == { StateOrder[k] : k \in 1 .. Len(StateOrder) }

\* state_data.get('detection_keywords', [])
DetectionKeywords(name) ==
    CASE name = "MAIN_MENU" -> { "ENTRADAS", "CALIBRAR" }
      [] name = "ENTRADAS_MENU" -> { "DAT.MEDID." }
      [] name = "DATOS_MEDIDOR_MENU" -> { "DATOS MEDIDOR" }
      [] name = "CALIBRAR_MENU" -> { "CALIBRACION" }
      [] OTHER -> {}

Keyword == UNION { DetectionKeywords(n) : n \in ConfigStates }

\* 'buttons' in current_config
HasButtons(name) ==
    name \in { "MAIN_MENU", "ENTRADAS_MENU", "DATOS_MEDIDOR_MENU",
               "CALIBRAR_MENU" }

\* current_config.get('transitions', {}): command -> target; the structured
\* form {target, clear_screen} has dict = TRUE, the legacy string form FALSE
Transitions(name) ==
    CASE name = "MAIN_MENU" ->
            { [cmd |-> "1", dict |-> FALSE, target |-> "ENTRADAS_MENU",
               clear_screen |-> FALSE],
              [cmd |-> "2", dict |-> TRUE, target |-> "CALIBRAR_MENU",
               clear_screen |-> TRUE] }
      [] name = "ENTRADAS_MENU" ->
            { [cmd |-> "1", dict |-> FALSE, target |-> "DATOS_MEDIDOR_MENU",
               clear_screen |-> FALSE] }
      [] name = "CALIBRAR_MENU" ->
            { [cmd |-> "1", dict |-> TRUE, target |-> "CALIBRAR_TABLE_VIEW",
               clear_screen |-> FALSE],
              [cmd |-> "2", dict |-> TRUE, target |-> "CALIBRAR_DATA_ENTRY",
               clear_screen |-> FALSE] }
      [] OTHER -> {}

\* what a configuration file can be: a well-formed state table, absent,
\* not JSON, or a JSON object without the key 'states'
ConfigFiles == { "valid", "missing", "not_json", "no_states" }

\* _load_config(config_file): self.config afterwards; "loaded" is the table
\* above, "empty" is {'states': {}}, "no_states" is an object without 'states'
load_config(file) ==
    CASE file = "valid" -> "loaded"
      [] file \in { "missing", "not_json" } -> "empty"
      [] file = "no_states" -> "no_states"

\* 'states' in config: config['states'] raises KeyError without it
HasStatesKey(cfg) == cfg # "no_states"

\* the keys of config['states'], in order
States(cfg) == IF cfg = "loaded" THEN StateOrder ELSE <<>>

\* name in config['states']
Defined(cfg, name) == \E k \in 1 .. Len(States(cfg)) : States(cfg)[k] = name

---------------------------------------------------------------------------
(* StateManager *)

MeasFields == { "X", "K", "M", "T", "U1" }
TableFields ==
    { "calib_i_percent", "calib_l123", "calib_cos", "di", "ds", "calib_go",
      "calib_r", "I1" }
HeaderFields == { "calib_percent", "calib_indicac" }
FieldNames == MeasFields \cup TableFields \cup HeaderFields

\* '---'
Sentinel == << "-", "-", "-" >>

\* the object after __init__, for a configuration file
InitialSM(file) ==
    [config |-> load_config(file), current_state |-> "INIT",
     history |-> <<>>,
     parsed_values |-> [f \in FieldNames |-> Sentinel],
     events |-> << [e |-> "update_menu_config", s |-> "None"] >>,
     raised |-> "none"]

\* the state manager as a record of the variables
SM ==
    [config |-> config, current_state |-> current_state,
     history |-> history, parsed_values |-> parsed_values,
     events |-> events, raised |-> sm_raised]

Emit(sm, ev) == [sm EXCEPT !.events = Append(@, ev)]

\* an exception leaves the method; what was assigned before it stays
SMRaise(sm, exc) == [sm EXCEPT !.raised = exc]

\* str.strip() of a text of spaces and other characters
RECURSIVE Strip(_)
Strip(t) ==
    IF t = <<>> THEN t
    ELSE IF Head(t) = " " THEN Strip(Tail(t))
    ELSE IF t[Len(t)] = " " THEN Strip(SubSeq(t, 1, Len(t) - 1))
    ELSE t

\* get_val(line, start, end) of row 5 for the column range of field f; an
\* empty text stands for None
get_val(text, f) == Strip(text.row5[f])

\* set_state(new_state)
set_stateKeepsTable(sm, new_state) ==
    IF sm.current_state = new_state THEN sm
    ELSE Emit([sm EXCEPT !.current_state = new_state,
                         !.history = Append(@, sm.current_state)],
              [e |-> "update_menu_config", s |-> new_state])
set_stateNoHistory(sm, new_state) ==
    IF sm.current_state = new_state THEN sm
    ELSE Emit([sm EXCEPT !.current_state = new_state,
                         !.parsed_values["di"] = Sentinel,
                         !.parsed_values["ds"] = Sentinel],
              [e |-> "update_menu_config", s |-> new_state])
set_state(sm, new_state) ==
    IF sm.current_state = new_state THEN sm
    ELSE
        LET old_state == sm.current_state
            leaving_table == old_state = "CALIBRAR_TABLE_VIEW"
            pv == IF leaving_table
                  THEN [sm.parsed_values EXCEPT !["di"] = Sentinel,
                                                !["ds"] = Sentinel]
                  ELSE sm.parsed_values
            moved == [sm EXCEPT !.current_state = new_state,
                                !.history = Append(@, old_state),
                                !.parsed_values = pv]
            shown == IF Defined(sm.config, new_state) THEN new_state
                     ELSE IF new_state = "CALIBRAR_DATA_ENTRY" THEN "{}"
                     ELSE "None"
        IN  IF ~HasStatesKey(sm.config) THEN SMRaise(moved, "KeyError")
            ELSE Emit(moved, [e |-> "update_menu_config", s |-> shown])

\* MainWindow.clear_monitor(), as far as the state manager is concerned
clear_monitor(sm) == set_state(sm, "INIT")

\* clear_screen_requested.emit(): the signal is connected to clear_monitor,
\* which runs before emit() returns
EmitClear(sm) ==
    clear_monitor(Emit(sm, [e |-> "clear_screen_requested", s |-> ""]))

\* the parsing of X, K, M, T, U1
ParseMeasurementsReverts(sm, text) ==
    IF sm.current_state \in
          { "DATOS_MEDIDOR_MENU", "CALIBRAR_MENU", "CALIBRAR_TABLE_VIEW" }
    THEN [sm EXCEPT !.parsed_values =
            [f \in FieldNames |->
                IF f \in MeasFields
                THEN IF text.meas[f] # <<>> THEN text.meas[f] ELSE Sentinel
                ELSE @[f]]]
    ELSE sm
ParseMeasurements(sm, text) ==
    IF sm.current_state \in
          { "DATOS_MEDIDOR_MENU", "CALIBRAR_MENU", "CALIBRAR_TABLE_VIEW" }
    THEN [sm EXCEPT !.parsed_values =
            [f \in FieldNames |->
                IF f \in MeasFields /\ text.meas[f] # <<>>
                THEN text.meas[f] ELSE @[f]]]
    ELSE sm

\* the parsing of the calibration table row and header
ParseCalibrationKeepsStale(sm, text) ==
    IF sm.current_state \in { "CALIBRAR_MENU", "CALIBRAR_TABLE_VIEW" }
    THEN [sm EXCEPT !.parsed_values =
            [f \in FieldNames |->
                IF f \in TableFields /\ text.has_row5
                                     /\ get_val(text, f) # <<>>
                THEN get_val(text, f)
                ELSE IF f = "calib_percent" /\ text.percent # <<>>
                THEN text.percent
                ELSE IF f = "calib_indicac" /\ text.indicac # <<>>
                THEN text.indicac
                ELSE @[f]]]
    ELSE sm
ParseCalibration(sm, text) ==
    IF sm.current_state \in { "CALIBRAR_MENU", "CALIBRAR_TABLE_VIEW" }
    THEN [sm EXCEPT !.parsed_values =
            [f \in FieldNames |->
                IF f \in TableFields
                THEN IF text.has_row5 /\ get_val(text, f) # <<>>
                     THEN get_val(text, f) ELSE Sentinel
                ELSE IF f = "calib_percent" /\ text.percent # <<>>
                THEN text.percent
                ELSE IF f = "calib_indicac" /\ text.indicac # <<>>
                THEN text.indicac
                ELSE @[f]]]
    ELSE sm

\* all(keyword in screen_text for keyword in keywords)
AnyIn(keywords, text) == keywords \cap text.kw # {}
AllIn(keywords, text) == keywords \subseteq text.kw

\* the detection loop: the position in the order of the first state with
\* keywords that are all in the text, 0 when there is none
FirstMatch(cfg, text) ==
    LET hits == { k \in 1 .. Len(States(cfg)) :
                    /\ DetectionKeywords(States(cfg)[k]) # {}
                    /\ AllIn(DetectionKeywords(States(cfg)[k]), text) }
    IN  IF hits = {} THEN 0
        ELSE CHOOSE k \in hits : \A j \in hits : k <= j

\* 'buttons' in config['states'].get(current_state, {})
DrawMenu(sm, text) ==
    IF sm.raised = "none" /\ Defined(sm.config, sm.current_state)
       /\ HasButtons(sm.current_state)
    THEN Emit(sm, [e |-> "parse_and_draw", s |-> sm.current_state])
    ELSE sm

\* the detection of a state and the drawing of its menu
DetectSkipsCurrent(sm, text) ==
    LET hits == { k \in 1 .. Len(States(sm.config)) :
                    /\ DetectionKeywords(States(sm.config)[k]) # {}
                    /\ AllIn(DetectionKeywords(States(sm.config)[k]), text)
                    /\ States(sm.config)[k] # sm.current_state }
        k == IF hits = {} THEN 0
             ELSE CHOOSE k \in hits : \A j \in hits : k <= j
    IN  DrawMenu(IF k # 0 THEN set_state(sm, States(sm.config)[k]) ELSE sm,
                 text)
Detect(sm, text) ==
    IF ~HasStatesKey(sm.config) THEN SMRaise(sm, "KeyError")
    ELSE
        LET k == FirstMatch(sm.config, text)
        IN  DrawMenu(IF k # 0 /\ States(sm.config)[k] # sm.current_state
                     THEN set_state(sm, States(sm.config)[k]) ELSE sm,
                     text)

\* the block for the data-entry and live-table states
SuppressedStillDetects(sm, text) == Detect(sm, text)
Suppressed(sm, text) ==
    IF /\ sm.current_state = "CALIBRAR_DATA_ENTRY"
       /\ ~Defined(sm.config, "CALIBRAR_MENU")
    THEN SMRaise(sm, "KeyError")
    ELSE IF /\ sm.current_state = "CALIBRAR_DATA_ENTRY"
            /\ AllIn(DetectionKeywords("CALIBRAR_MENU"), text)
    THEN set_state(sm, "CALIBRAR_MENU")
    ELSE IF ~HasStatesKey(sm.config) THEN SMRaise(sm, "KeyError")
    ELSE Emit(sm, [e |-> "update_menu_config",
                   s |-> IF Defined(sm.config, sm.current_state)
                         THEN sm.current_state ELSE "{}"])

\* process_screen_text(screen_text)
process_screen_textDetectsFirst(sm, text) ==
    LET moved == IF sm.current_state \in
                        { "CALIBRAR_DATA_ENTRY", "CALIBRAR_TABLE_VIEW" }
                 THEN Suppressed(sm, text)
                 ELSE Detect(sm, text)
    IN  ParseCalibration(ParseMeasurements(moved, text), text)
process_screen_text(sm, text) ==
    LET parsed == ParseCalibration(ParseMeasurements(sm, text), text)
    IN  IF parsed.current_state \in
              { "CALIBRAR_DATA_ENTRY", "CALIBRAR_TABLE_VIEW" }
        THEN Suppressed(parsed, text)
        ELSE Detect(parsed, text)

\* command.lower()
Lower(command) ==
    CASE command = "RESET" -> "reset"
      [] command = "Esc" -> "esc"
      [] OTHER -> command

\* the commands of a state's transition table that equal c
HitInAnyState(sm, c) ==
    { t \in UNION { Transitions(n) : n \in ConfigStates } : t.cmd = c }
Hit(sm, c) ==
    IF Defined(sm.config, sm.current_state)
    THEN { t \in Transitions(sm.current_state) : t.cmd = c }
    ELSE {}

\* process_command(command)
process_commandKeepsHistory(sm, command) ==
    IF Lower(command) = "reset"
    THEN set_state(EmitClear(sm), "MAIN_MENU")
    ELSE sm
process_commandSilentEsc(sm, command) ==
    IF Lower(command) = "esc" THEN set_state(sm, "MAIN_MENU") ELSE sm
process_commandIgnoresClear(sm, command) ==
    IF Hit(sm, Lower(command)) # {}
    THEN set_state(sm, (CHOOSE t \in Hit(sm, Lower(command)) : TRUE).target)
    ELSE sm
process_command(sm, command) ==
    LET c == Lower(command)
        hit == Hit(sm, c)
    IN  IF ~HasStatesKey(sm.config) THEN SMRaise(sm, "KeyError")
        ELSE IF c = "reset"
        THEN set_state(EmitClear([sm EXCEPT !.history = <<>>]), "MAIN_MENU")
        ELSE IF c = "esc"
        THEN IF sm.current_state # "MAIN_MENU"
             THEN set_state(EmitClear(sm), "MAIN_MENU")
             ELSE sm
        ELSE IF hit # {}
        THEN LET t == CHOOSE t \in hit : TRUE
             IN  IF t.dict
                 THEN set_state(IF t.clear_screen THEN EmitClear(sm) ELSE sm,
                                t.target)
                 ELSE set_state(sm, t.target)
        ELSE sm

---------------------------------------------------------------------------
(* Inputs *)

\* sequences over S of length n
RECURSIVE SeqsOfLen(_, _)
SeqsOfLen(S, n) ==
    IF n = 0 THEN { <<>> }
    ELSE { Append(s, c) : s \in SeqsOfLen(S, n - 1), c \in S }

SeqsUpTo(S, n) == UNION { SeqsOfLen(S, k) : k \in 0 .. n }

Chunks == SeqsUpTo(Char, MaxChunk) \ { <<>> }

\* the plain text on the grid is text the device prints
OnlyText(scr) ==
    \A r \in RowIdx : \A c \in ColIdx : scr[r][c] \in Text \cup {" "}


\* the text matched by a measurement or header pattern, <<>> when none is
NoMeas == [f \in MeasFields |-> <<>>]
SomeMeas == [f \in MeasFields |-> IF f \in { "X", "U1" } THEN << "1" >> ELSE <<>>]

\* the column ranges of row 5
BlankRow == [f \in TableFields |-> << " " >>]
SomeRow ==
    [f \in TableFields |->
        IF f \in { "di", "I1" } THEN << " ", "5", " " >> ELSE << " " >>]

\* the sets of keywords the screen texts hold
KwSets ==
    { {}, { "ENTRADAS" }, { "ENTRADAS", "CALIBRAR" }, { "DAT.MEDID." },
      { "DATOS MEDIDOR" }, { "CALIBRACION" },
      { "ENTRADAS", "CALIBRAR", "CALIBRACION" },
      { "DAT.MEDID.", "DATOS MEDIDOR" }, { "ENTRADAS", "DAT.MEDID." } }

\* a screen text: the keywords it holds and what the field patterns and
\* the column ranges of row 5 find in it
ScreenTexts ==
    { [kw |-> k, meas |-> NoMeas, has_row5 |-> TRUE, row5 |-> BlankRow,
       percent |-> <<>>, indicac |-> <<>>] : k \in KwSets }
      \cup
    { [kw |-> k, meas |-> SomeMeas, has_row5 |-> TRUE, row5 |-> SomeRow,
       percent |-> << "x" >>, indicac |-> <<>>] :
            k \in { {}, { "CALIBRACION" }, { "DATOS MEDIDOR" } } }
      \cup
    { [kw |-> {}, meas |-> NoMeas, has_row5 |-> FALSE, row5 |-> BlankRow,
       percent |-> <<>>, indicac |-> <<>>] }

Commands == { "reset", "RESET", "esc", "1", "2", "9" }

---------------------------------------------------------------------------
(* SequenceManager: a list of whole commands, one per expiry of the timer *)

\* longest list given to start_sequence
MaxCommands == 3
\* the commands of a list
SeqCommand == { "reset", "1", "2", "esc" }

\* SequenceManager(delay): empty queue, timer not started
FreshSeq == [command_queue |-> <<>>, timer |-> FALSE, out |-> <<>>]

\* the object as a record
SeqMgr == [command_queue |-> command_queue, timer |-> timer, out |-> seq_out]

\* signal.emit(value)
SeqEmit(s, sig, v) == [s EXCEPT !.out = Append(@, [sig |-> sig, v |-> v])]

\* _send_next_command()
SendNextCommandTestsBeforePop(s) ==
    IF s.command_queue # <<>>
    THEN LET sent == SeqEmit([s EXCEPT !.command_queue = Tail(@)],
                             "send_command", Head(s.command_queue))
         IN  IF s.command_queue # <<>>
             THEN [sent EXCEPT !.timer = TRUE]
             ELSE SeqEmit(sent, "sequence_finished", "")
    ELSE s
_send_next_command(s) ==
    IF s.command_queue # <<>>
    THEN LET sent == SeqEmit([s EXCEPT !.command_queue = Tail(@)],
                             "send_command", Head(s.command_queue))
         IN  IF sent.command_queue # <<>>
             THEN [sent EXCEPT !.timer = TRUE]
             ELSE SeqEmit(sent, "sequence_finished", "")
    ELSE s

\* start_sequence(commands)
start_sequence(s, commands) ==
    _send_next_command([s EXCEPT !.command_queue = commands])

SetSeq(s) ==
    /\ command_queue' = s.command_queue
    /\ timer' = s.timer
    /\ seq_out' = s.out

InitSeq ==
    /\ command_queue = FreshSeq.command_queue
    /\ timer = FreshSeq.timer
    /\ seq_out = FreshSeq.out
    /\ seq_commands = <<>>
    /\ seq_op = "init"
    /\ seq_pre = <<>>

\* _run_calibration_sequence(params): the controls that start a sequence
\* are disabled until it finishes, so none starts while another runs
StartSequence ==
    /\ command_queue = <<>>
    /\ ~timer
    /\ \E commands \in SeqsUpTo(SeqCommand, MaxCommands) :
          /\ SetSeq(start_sequence([SeqMgr EXCEPT !.out = <<>>], commands))
          /\ seq_commands' = commands
    /\ seq_op' = "start_sequence"
    /\ seq_pre' = <<>>
    /\ UNCHANGED << emu_all, stream_vars, ui_vars, sm_all, pseq_vars,
                    pipe_vars, menu_vars, write_vars >>

\* the single-shot timer expires: timer.timeout -> _send_next_command
SeqTimeout ==
    /\ timer
    /\ SetSeq(_send_next_command([SeqMgr EXCEPT !.timer = FALSE]))
    /\ seq_op' = "timeout"
    /\ seq_pre' = seq_out
    /\ UNCHANGED seq_commands
    /\ UNCHANGED << emu_all, stream_vars, ui_vars, sm_all, pseq_vars,
                    pipe_vars, menu_vars, write_vars >>

---------------------------------------------------------------------------
(* ProtocolSequenceManager: fields sent character by character *)

\* most fields given to start_sequence, most characters of a field
MaxFields == 2
MaxFieldLen == 2
\* most start_sequence calls made while a sequence is running
MaxRestarts == 1
\* the characters of a field
FieldChar == { "1", "." }
FieldTexts == SeqsUpTo(FieldChar, MaxFieldLen)

\* ProtocolSequenceManager(): empty queues, no timer started
FreshPSeq ==
    [field_queue |-> <<>>, char_queue |-> <<>>, char_timer |-> FALSE,
     field_timer |-> FALSE, out |-> <<>>]

\* the object as a record
PSeqMgr ==
    [field_queue |-> field_queue, char_queue |-> char_queue,
     char_timer |-> char_timer, field_timer |-> field_timer,
     out |-> pseq_out]

\* signal.emit(value)
PSeqEmit(s, sig, v) == [s EXCEPT !.out = Append(@, [sig |-> sig, v |-> v])]

\* _send_next_char()
SendNextCharAlwaysWaits(s) ==
    IF s.char_queue # <<>>
    THEN [PSeqEmit([s EXCEPT !.char_queue = Tail(@)],
                   "send_char", Head(s.char_queue))
            EXCEPT !.char_timer = TRUE]
    ELSE [PSeqEmit(s, "send_enter", "") EXCEPT !.field_timer = TRUE]
_send_next_char(s) ==
    IF s.char_queue # <<>>
    THEN [PSeqEmit([s EXCEPT !.char_queue = Tail(@)],
                   "send_char", Head(s.char_queue))
            EXCEPT !.char_timer = TRUE]
    ELSE LET entered == PSeqEmit(s, "send_enter", "")
         IN  IF entered.field_queue # <<>>
             THEN [entered EXCEPT !.field_timer = TRUE]
             ELSE PSeqEmit(entered, "sequence_finished", "")

\* _send_next_field()
_send_next_field(s) ==
    IF s.field_queue # <<>>
    THEN _send_next_char([s EXCEPT !.field_queue = Tail(@),
                                   !.char_queue = Head(s.field_queue)])
    ELSE PSeqEmit(s, "sequence_finished", "")

\* ProtocolSequenceManager.start_sequence(fields)
protocol_start_sequence(s, fields) ==
    _send_next_field([s EXCEPT !.field_queue = fields])

SetPSeq(s) ==
    /\ field_queue' = s.field_queue
    /\ char_queue' = s.char_queue
    /\ char_timer' = s.char_timer
    /\ field_timer' = s.field_timer
    /\ pseq_out' = s.out

InitPSeq ==
    /\ field_queue = FreshPSeq.field_queue
    /\ char_queue = FreshPSeq.char_queue
    /\ char_timer = FreshPSeq.char_timer
    /\ field_timer = FreshPSeq.field_timer
    /\ pseq_out = FreshPSeq.out
    /\ pseq_fields = <<>>
    /\ pseq_op = "init"
    /\ pseq_pre = <<>>

\* start_sequence(fields), called once on the constructed object
StartProtocolSequence ==
    /\ pseq_op = "init"
    /\ \E fields \in SeqsUpTo(FieldTexts, MaxFields) :
          /\ SetPSeq(protocol_start_sequence(PSeqMgr, fields))
          /\ pseq_fields' = fields
    /\ pseq_op' = "start_sequence"
    /\ pseq_pre' = pseq_out
    /\ UNCHANGED << emu_all, stream_vars, ui_vars, sm_all, seq_vars,
                    pipe_vars, menu_vars, write_vars >>

\* start_sequence(fields) while a timer of the earlier sequence is
\* running: start_sequence stops no timer, char_timer.start() in
\* _send_next_char restarts the character timer
RestartProtocolSequence ==
    /\ char_timer \/ field_timer
    /\ restarts < MaxRestarts
    /\ \E fields \in SeqsUpTo(FieldTexts, MaxFields) :
          /\ SetPSeq(protocol_start_sequence([PSeqMgr EXCEPT !.out = <<>>],
                                             fields))
          /\ pseq_fields' = fields
    /\ pseq_op' = "restart"
    /\ pseq_pre' = <<>>
    /\ restarts' = restarts + 1
    /\ UNCHANGED << emu_all, stream_vars, sm_all, seq_vars, pipe_vars,
                    menu_vars, write_vars, last_send, reconnect >>

\* the single-shot character timer expires: timeout -> _send_next_char
CharTimeout ==
    /\ char_timer
    /\ SetPSeq(_send_next_char([PSeqMgr EXCEPT !.char_timer = FALSE]))
    /\ pseq_op' = "char_timeout"
    /\ pseq_pre' = pseq_out
    /\ UNCHANGED pseq_fields
    /\ UNCHANGED << emu_all, stream_vars, ui_vars, sm_all, seq_vars,
                    pipe_vars, menu_vars, write_vars >>

\* the single-shot field timer expires: timeout -> _send_next_field
FieldTimeout ==
    /\ field_timer
    /\ SetPSeq(_send_next_field([PSeqMgr EXCEPT !.field_timer = FALSE]))
    /\ pseq_op' = "field_timeout"
    /\ pseq_pre' = pseq_out
    /\ UNCHANGED pseq_fields
    /\ UNCHANGED << emu_all, stream_vars, ui_vars, sm_all, seq_vars,
                    pipe_vars, menu_vars, write_vars >>

---------------------------------------------------------------------------
(* From the port to the state manager: the read loop of the worker, the   *)
(* queued signal data_received, display_data and the processing timer     *)

\* the processing timer's interval, in units of time
Interval == 2
\* most characters read from the port
MaxReceived == 5
\* processing_timer is not running
Inactive == 0 - 1

\* what one read_all() returns
Reads ==
    { << "A" >>, << "A", LF >>, << LF >>, << ESC, "[", "?", "H" >> }

\* the 7-bit characters
Ascii == Char \cup { " " }

\* data.decode('ascii', errors='replace')
Decode(bytes) ==
    [k \in 1 .. Len(bytes) |->
        IF bytes[k] \in Ascii THEN bytes[k] ELSE "U+FFFD"]

\* the characters str.strip() removes
Whitespace == { " ", LF, CR }

RECURSIVE LStrip(_)
LStrip(text) ==
    IF text # <<>> /\ Head(text) \in Whitespace THEN LStrip(Tail(text))
    ELSE text

RECURSIVE RStrip(_)
RStrip(text) ==
    IF text # <<>> /\ text[Len(text)] \in Whitespace
    THEN RStrip(SubSeq(text, 1, Len(text) - 1))
    ELSE text

\* text.strip()
StripText(text) == RStrip(LStrip(text))

\* the screen text as process_screen_text reads it: the grid holds no
\* keyword, no field pattern and no header, and has Rows lines
ScreenTextOf(text) ==
    [kw |-> {}, meas |-> NoMeas, has_row5 |-> Rows > 5, row5 |-> BlankRow,
     percent |-> <<>>, indicac |-> <<>>]

InitPipe ==
    /\ port_text = <<>>
    /\ inbox = <<>>
    /\ handed = <<>>
    /\ processing_timer = Inactive
    /\ age = Interval

---------------------------------------------------------------------------
(* MenuManager: the buttons drawn from the options found on the screen *)

\* the numbers of the options a screen can show
MaxOption == 2

\* the states update_menu has a parsing branch for
MenuStates ==
    { "MAIN_MENU", "ENTRADAS_MENU", "DATOS_MEDIDOR_MENU", "CALIBRAR_MENU" }
\* those whose branch compares tuple(sorted(menu_matches))
SortedStates == { "DATOS_MEDIDOR_MENU", "CALIBRAR_MENU" }
\* the states set_state is called with
MenuStateNames == MenuStates \cup { "INIT", "CALIBRAR_DATA_ENTRY" }

\* current_menu_options = None; update_menu never stores an empty tuple
NoOptions == <<>>

\* tuple(REGEX.findall(...)): the options found, in the order found
OptionTuples ==
    { t \in SeqsUpTo(1 .. MaxOption, MaxOption) :
        \A i, j \in 1 .. Len(t) : i # j => t[i] # t[j] }

\* a screen: the keywords it holds and the options the regex of the
\* current state finds in it
MenuScreens ==
    { [kw |-> k, matches |-> t] :
        k \in { {}, { "ENTRADAS", "CALIBRAR" }, { "DAT.MEDID." },
                { "DATOS MEDIDOR" }, { "X =" }, { "CALIBRACION" } },
        t \in OptionTuples }

\* sorted(menu_matches)
RECURSIVE Sorted(_)
Sorted(t) ==
    IF t = <<>> THEN <<>>
    ELSE LET k == CHOOSE k \in 1 .. Len(t) :
                    \A j \in 1 .. Len(t) : t[k] <= t[j]
             rest == [j \in 1 .. Len(t) - 1 |->
                        IF j < k THEN t[j] ELSE t[j + 1]]
         IN  << t[k] >> \o Sorted(rest)

\* MenuManager(parent_ui, main_window)
FreshMenu ==
    [current_state |-> "INIT", current_menu_options |-> NoOptions,
     buttons |-> <<>>, rebuilt |-> FALSE]

\* the object as a record
Menu ==
    [current_state |-> menu_state,
     current_menu_options |-> current_menu_options,
     buttons |-> buttons, rebuilt |-> rebuilt]

\* the keyword test that guards the parsing of a state's options
Gate(state, scr) ==
    CASE state = "MAIN_MENU" -> TRUE
      [] state = "ENTRADAS_MENU" -> "DAT.MEDID." \in scr.kw
      [] state = "DATOS_MEDIDOR_MENU" ->
            "DATOS MEDIDOR" \in scr.kw \/ "X =" \in scr.kw
      [] state = "CALIBRAR_MENU" -> "CALIBRACION" \in scr.kw
      [] OTHER -> FALSE

\* the tuple compared with, and stored in, current_menu_options
Key(state, matches) ==
    IF state \in SortedStates THEN Sorted(matches) ELSE matches

\* clear_menu() and one create_button per option found
Redraw(mm, matches) ==
    [mm EXCEPT !.current_menu_options = Key(mm.current_state, matches),
               !.buttons = matches,
               !.rebuilt = TRUE]

\* the switch from INIT to MAIN_MENU at the start of update_menu
SeeMainMenu(mm, scr) ==
    IF mm.current_state = "INIT" /\ { "ENTRADAS", "CALIBRAR" } \subseteq scr.kw
    THEN [mm EXCEPT !.current_state = "MAIN_MENU"]
    ELSE mm

\* update_menu(cleaned_data)
update_menuRedrawsOnEmpty(mm, scr) ==
    LET m == SeeMainMenu([mm EXCEPT !.rebuilt = FALSE], scr)
    IN  IF /\ m.current_state \in MenuStates
           /\ Gate(m.current_state, scr)
           /\ Key(m.current_state, scr.matches) # m.current_menu_options
        THEN Redraw(m, scr.matches)
        ELSE m
update_menu(mm, scr) ==
    LET m == SeeMainMenu([mm EXCEPT !.rebuilt = FALSE], scr)
    IN  IF /\ m.current_state \in MenuStates
           /\ Gate(m.current_state, scr)
           /\ scr.matches # <<>>
           /\ Key(m.current_state, scr.matches) # m.current_menu_options
        THEN Redraw(m, scr.matches)
        ELSE m

\* MenuManager.set_state(new_state)
menu_set_state(mm, new_state) ==
    [mm EXCEPT !.current_state = new_state,
               !.current_menu_options = NoOptions,
               !.buttons = <<>>,
               !.rebuilt = FALSE]

SetMenu(mm) ==
    /\ menu_state' = mm.current_state
    /\ current_menu_options' = mm.current_menu_options
    /\ buttons' = mm.buttons
    /\ rebuilt' = mm.rebuilt

InitMenu ==
    /\ menu_state = FreshMenu.current_state
    /\ current_menu_options = FreshMenu.current_menu_options
    /\ buttons = FreshMenu.buttons
    /\ rebuilt = FreshMenu.rebuilt
    /\ menu_op = "init"
    /\ menu_arg = [kw |-> {}, matches |-> <<>>]
    /\ menu_pre = FreshMenu

\* menu_manager.update_menu(cleaned_data)
UpdateMenu ==
    /\ \E scr \in MenuScreens :
          /\ SetMenu(update_menu(Menu, scr))
          /\ menu_arg' = scr
    /\ menu_op' = "update_menu"
    /\ menu_pre' = Menu
    /\ UNCHANGED << emu_all, stream_vars, ui_vars, sm_all, seq_vars,
                    pseq_vars, pipe_vars, write_vars >>

\* menu_manager.set_state(new_state)
MenuSetState ==
    /\ \E new_state \in MenuStateNames :
          /\ SetMenu(menu_set_state(Menu, new_state))
          /\ menu_arg' = [kw |-> {}, matches |-> <<>>]
    /\ menu_op' = "set_state"
    /\ menu_pre' = Menu
    /\ UNCHANGED << emu_all, stream_vars, ui_vars, sm_all, seq_vars,
                    pseq_vars, pipe_vars, write_vars >>

---------------------------------------------------------------------------
(* SerialWorker.write_command: from a command to the bytes on the port *)

\* most commands given to the worker
MaxWrites == 3

\* the byte 0x03
ETX == "ETX"

\* the commands, as texts: reset in three spellings, a key, a value, esc,
\* and a text with a character outside ASCII
WriteCommands ==
    { << "r", "e", "s", "e", "t" >>, << "R", "E", "S", "E", "T" >>,
      << "R", "e", "s", "e", "t" >>, << "1" >>, << "1", ".", "5" >>,
      << "e", "s", "c" >>, << "n~" >> }

\* the characters of the commands that ASCII holds
AsciiChars ==
    { "r", "e", "s", "t", "c", "R", "E", "S", "T", "1", ".", "5", CR }

LowerChar(c) ==
    CASE c = "R" -> "r" [] c = "E" -> "e" [] c = "S" -> "s"
      [] c = "T" -> "t" [] OTHER -> c

\* command.lower()
LowerText(command) == [k \in 1 .. Len(command) |-> LowerChar(command[k])]

\* text.encode('ascii') raises UnicodeEncodeError
EncodeRaises(text) == \E k \in 1 .. Len(text) : text[k] \notin AsciiChars

\* text.encode('ascii'), for a text it does not raise on: one byte for
\* each character
Encode(text) == [k \in 1 .. Len(text) |-> << "byte", text[k] >>]

\* the result of a write_command: what write_result carries, the bytes
\* that reached the port
Failed == [sent |-> FALSE, bytes |-> <<>>]
Sent(bytes) == [sent |-> TRUE, bytes |-> bytes]

\* write_command(command) with the port open or not; io_error: the
\* port's write raises
write_commandNoReturn(open, command, io_error) ==
    IF ~open THEN Failed
    ELSE IF LowerText(command) = << "r", "e", "s", "e", "t" >>
    THEN IF io_error THEN Failed ELSE Sent(<< << "byte", ETX >> >>)
    ELSE IF EncodeRaises(command) THEN Failed
    ELSE IF io_error THEN Failed
    ELSE Sent(Encode(command))
write_command(open, command, io_error) ==
    IF ~open THEN Failed
    ELSE IF LowerText(command) = << "r", "e", "s", "e", "t" >>
    THEN IF io_error THEN Failed ELSE Sent(<< << "byte", ETX >> >>)
    ELSE IF EncodeRaises(command \o << CR >>) THEN Failed
    ELSE IF io_error THEN Failed
    ELSE Sent(Encode(command \o << CR >>))

InitWrite ==
    /\ port_open = FALSE
    /\ outbox = <<>>
    /\ issued = <<>>
    /\ writes = <<>>
    /\ wire = <<>>

\* send_to_worker.emit(command): queued for the worker's thread
IssueCommand ==
    /\ Len(issued) < MaxWrites
    /\ \E command \in WriteCommands :
          /\ issued' = Append(issued, command)
          /\ outbox' = Append(outbox, command)
    /\ UNCHANGED << port_open, writes, wire >>
    /\ UNCHANGED << emu_all, stream_vars, ui_vars, sm_all, seq_vars,
                    pseq_vars, pipe_vars, menu_vars >>

\* the worker runs write_command on the oldest queued command
WriteCommand ==
    /\ outbox # <<>>
    /\ \E io_error \in BOOLEAN :
          LET r == write_command(port_open, Head(outbox), io_error)
          IN  /\ writes' = Append(writes,
                                  [command |-> Head(outbox),
                                   open |-> port_open,
                                   io_error |-> port_open /\ io_error,
                                   result |-> r])
              /\ wire' = wire \o r.bytes
    /\ outbox' = Tail(outbox)
    /\ UNCHANGED << port_open, issued >>
    /\ UNCHANGED << emu_all, stream_vars, ui_vars, sm_all, seq_vars,
                    pseq_vars, pipe_vars, menu_vars >>

\* run() opens the port
OpenPort ==
    /\ ~port_open
    /\ port_open' = TRUE
    /\ UNCHANGED << outbox, issued, writes, wire >>
    /\ UNCHANGED << emu_all, stream_vars, ui_vars, sm_all, seq_vars,
                    pseq_vars, pipe_vars, menu_vars >>

\* the read loop ends and the port is closed
ClosePort ==
    /\ port_open
    /\ port_open' = FALSE
    /\ UNCHANGED << outbox, issued, writes, wire >>
    /\ UNCHANGED << emu_all, stream_vars, ui_vars, sm_all, seq_vars,
                    pseq_vars, pipe_vars, menu_vars >>

---------------------------------------------------------------------------
(* Operations on the emulator *)

\* the objects beside the emulator and the state manager, as constructed
\* MainWindow.__init__: no command sent, no serial worker started again
InitUI ==
    /\ last_send = [by |-> "none", command |-> "", path |-> "none",
                    from |-> "INIT", to |-> "INIT", history |-> <<>>,
                    worker |-> <<>>]
    /\ reconnect = [n |-> 0, handed |-> 0, queued |-> 0]
    /\ restarts = 0

InitAux ==
    InitSeq /\ InitPSeq /\ InitPipe /\ InitMenu /\ InitWrite /\ InitUI

SetEmu(st) ==
    /\ screen' = st.screen
    /\ cursor_pos' = st.cursor_pos
    /\ incomplete_data_buffer' = st.buf
    /\ raised' = st.raised

\* what is remembered of the object and of the previous operation
Snapshot ==
    [screen |-> screen, cursor_pos |-> cursor_pos,
     buf |-> incomplete_data_buffer, op |-> op, ret |-> ret]

\* process_data's local `data` in the last call: buffer + argument
data == pre.buf \o arg

InitEmu ==
    /\ screen = Fresh.screen
    /\ cursor_pos = Fresh.cursor_pos
    /\ incomplete_data_buffer = Fresh.buf
    /\ raised = "none"
    /\ op = "init"
    /\ arg = <<>>
    /\ ret = <<>>
    /\ pre = [screen |-> Fresh.screen, cursor_pos |-> Fresh.cursor_pos,
              buf |-> Fresh.buf, op |-> "init", ret |-> <<>>]

\* emulator.process_data(arg)
ProcessData ==
    \E a \in Chunks :
        LET st == process_data(Emu, a)
        IN  /\ Len(st.buf) <= MaxBuf
            /\ st.cursor_pos[1] <= Rows - 1 + MaxOverflow
            /\ OnlyText(st.screen)
            /\ SetEmu(st)
            /\ op' = "process_data"
            /\ arg' = a
            /\ ret' = <<>>
            /\ pre' = Snapshot
            /\ UNCHANGED << stream_vars, sm_all, aux_vars >>

\* emulator.reset()
Reset ==
    /\ SetEmu(reset(Emu))
    /\ op' = "reset"
    /\ arg' = <<>>
    /\ ret' = <<>>
    /\ pre' = Snapshot
    /\ UNCHANGED << stream_vars, sm_all, aux_vars >>

\* emulator.get_screen_text()
GetScreenTextMovesCursor ==
    /\ ret' = get_screen_text(Emu)
    /\ op' = "get_screen_text"
    /\ arg' = <<>>
    /\ pre' = Snapshot
    /\ cursor_pos' = << 0, 0 >>
    /\ UNCHANGED << screen, incomplete_data_buffer, raised >>
    /\ UNCHANGED << stream_vars, sm_all, aux_vars >>
GetScreenText ==
    /\ ret' = get_screen_text(Emu)
    /\ op' = "get_screen_text"
    /\ arg' = <<>>
    /\ pre' = Snapshot
    /\ UNCHANGED emu_vars
    /\ UNCHANGED << stream_vars, sm_all, aux_vars >>

\* display_data(raw_data): the next k received characters reach process_data;
\* a call that raised ends the feeding
Deliver ==
    /\ raised = "none"
    /\ \E k \in 0 .. Len(pending) :
          LET a == SubSeq(pending, 1, k)
          IN  /\ SetEmu(process_data(Emu, a))
              /\ op' = "process_data"
              /\ arg' = a
              /\ ret' = <<>>
              /\ pre' = Snapshot
              /\ pending' = SubSeq(pending, k + 1, Len(pending))
              /\ UNCHANGED << start, stream, sm_all, aux_vars >>

---------------------------------------------------------------------------
(* Operations on the state manager *)

SetSM(sm) ==
    /\ config' = sm.config
    /\ current_state' = sm.current_state
    /\ history' = sm.history
    /\ parsed_values' = sm.parsed_values
    /\ events' = sm.events
    /\ sm_raised' = sm.raised

\* what is remembered of the state manager before an operation
SnapshotSM ==
    [current_state |-> current_state, history |-> history,
     parsed_values |-> parsed_values]

\* an operation starts with no signal emitted and no menu call made
Quiet(sm) == [sm EXCEPT !.events = <<>>, !.raised = "none"]

\* the operation made the signal clear_screen_requested
Cleared(sm) ==
    \E k \in 1 .. Len(sm.events) : sm.events[k].e = "clear_screen_requested"

\* StateManager(menu_manager) with the configuration file `file`
InitSMWith(file) ==
    /\ config = InitialSM(file).config
    /\ current_state = InitialSM(file).current_state
    /\ history = InitialSM(file).history
    /\ parsed_values = InitialSM(file).parsed_values
    /\ events = InitialSM(file).events
    /\ sm_raised = InitialSM(file).raised
    /\ sm_op = "init"
    /\ sm_arg = ""
    /\ sm_pre = [current_state |-> InitialSM(file).current_state,
                 history |-> InitialSM(file).history,
                 parsed_values |-> InitialSM(file).parsed_values]

InitSM == InitSMWith("valid")

\* clear_monitor: screen_emulator.reset()
ResetEmulator ==
    /\ SetEmu(reset(Emu))
    /\ op' = "reset"
    /\ arg' = <<>>
    /\ ret' = <<>>
    /\ pre' = Snapshot

\* state_manager.process_screen_text(text)
ProcessScreenText ==
    \E text \in ScreenTexts :
        LET sm == process_screen_text(Quiet(SM), text)
        IN  /\ Len(sm.history) <= MaxHistory
            /\ SetSM(sm)
            /\ sm_op' = "process_screen_text"
            /\ sm_arg' = text
            /\ sm_pre' = SnapshotSM
            /\ UNCHANGED << emu_all, stream_vars, aux_vars >>

\* state_manager.process_command(command), with the slot of its signal
ProcessCommand ==
    \E command \in Commands :
        LET sm == process_command(Quiet(SM), command)
        IN  /\ Len(sm.history) <= MaxHistory
            /\ SetSM(sm)
            /\ sm_op' = "process_command"
            /\ sm_arg' = command
            /\ sm_pre' = SnapshotSM
            /\ IF Cleared(sm) THEN ResetEmulator ELSE UNCHANGED emu_all
            /\ UNCHANGED << stream_vars, aux_vars >>

\* MainWindow.clear_monitor(): the emulator is reset, the state set to INIT
ClearMonitor ==
    LET sm == clear_monitor(Quiet(SM))
    IN  /\ Len(sm.history) <= MaxHistory
        /\ SetSM(sm)
        /\ sm_op' = "clear_monitor"
        /\ sm_arg' = ""
        /\ sm_pre' = SnapshotSM
        /\ ResetEmulator
        /\ UNCHANGED << stream_vars, aux_vars >>

---------------------------------------------------------------------------
(* Operations on the path from the port to the state manager *)

\* one turn of the read loop: read_all, decode, strip, emit if not empty
SerialRead ==
    \E bytes \in Reads :
        LET text == StripText(Decode(bytes))
        IN  /\ Len(port_text) + Len(bytes) <= MaxReceived
            /\ port_text' = port_text \o Decode(bytes)
            /\ inbox' = IF text # <<>> THEN Append(inbox, text) ELSE inbox
            /\ UNCHANGED << handed, processing_timer, age >>
            /\ UNCHANGED << emu_all, stream_vars, ui_vars, sm_all, seq_vars,
                            pseq_vars, menu_vars, write_vars >>

\* display_data(raw_data) on the oldest chunk in the queue: process_data,
\* then processing_timer.start(), which an exception skips
DisplayData ==
    /\ inbox # <<>>
    /\ LET st == process_data(Emu, Head(inbox))
       IN  /\ SetEmu(st)
           /\ processing_timer' =
                 IF st.raised = "none" THEN Interval ELSE processing_timer
    /\ op' = "process_data"
    /\ arg' = Head(inbox)
    /\ ret' = <<>>
    /\ pre' = Snapshot
    /\ inbox' = Tail(inbox)
    /\ handed' = handed \o Head(inbox)
    /\ age' = 0
    /\ UNCHANGED port_text
    /\ UNCHANGED << stream_vars, ui_vars, sm_all, seq_vars, pseq_vars,
                    menu_vars,
                    write_vars >>

\* one unit of time passes; a timer that is due fires first
Tick ==
    /\ processing_timer # 0
    /\ processing_timer > 0 \/ age < Interval
    /\ processing_timer' =
          IF processing_timer > 0 THEN processing_timer - 1
          ELSE processing_timer
    /\ age' = Min(age + 1, Interval)
    /\ UNCHANGED << port_text, inbox, handed >>
    /\ UNCHANGED << emu_all, stream_vars, ui_vars, sm_all, seq_vars,
                    pseq_vars, menu_vars, write_vars >>

\* processing_timer.timeout -> _process_screen_snapshot()
ProcessScreenSnapshot ==
    /\ processing_timer = 0
    /\ processing_timer' = Inactive
    /\ ret' = get_screen_text(Emu)
    /\ op' = "get_screen_text"
    /\ arg' = <<>>
    /\ pre' = Snapshot
    /\ UNCHANGED emu_vars
    /\ LET text == ScreenTextOf(get_screen_text(Emu))
           sm == process_screen_text(Quiet(SM), text)
       IN  /\ SetSM(sm)
           /\ sm_op' = "process_screen_text"
           /\ sm_arg' = text
           /\ sm_pre' = SnapshotSM
    /\ UNCHANGED << port_text, inbox, handed, age >>
    /\ UNCHANGED << stream_vars, ui_vars, seq_vars, pseq_vars, menu_vars,
                    write_vars >>

\* most calls of start_serial_worker after the first
MaxReconnects == 1

\* the characters of the chunks in a queue
RECURSIVE Queued(_)
Queued(q) == IF q = <<>> THEN 0 ELSE Len(Head(q)) + Queued(Tail(q))

\* start_serial_worker() with a worker running: clear_monitor(), then the
\* old worker is told to stop and its thread is waited for, then a new
\* worker is created and connected.  The old worker's loop may read once
\* more before it sees running = False; the data_received signals it has
\* emitted stay queued for display_data.  The commands queued for the old
\* worker are never written; the new worker has yet to open the port.
StartSerialWorker ==
    /\ reconnect.n < MaxReconnects
    /\ LET sm == clear_monitor(Quiet(SM))
       IN  /\ Len(sm.history) <= MaxHistory
           /\ SetSM(sm)
           /\ sm_op' = "clear_monitor"
           /\ sm_arg' = ""
           /\ sm_pre' = SnapshotSM
           /\ ResetEmulator
    /\ \E bytes \in { <<>> } \cup Reads :
          LET text == StripText(Decode(bytes))
          IN  /\ Len(port_text) + Len(bytes) <= MaxReceived
              /\ port_text' = port_text \o Decode(bytes)
              /\ inbox' = IF text # <<>> THEN Append(inbox, text) ELSE inbox
    /\ reconnect' = [n |-> reconnect.n + 1, handed |-> Len(handed),
                     queued |-> Queued(inbox')]
    /\ port_open' = FALSE
    /\ outbox' = <<>>
    /\ UNCHANGED << handed, processing_timer, age, issued, writes, wire >>
    /\ UNCHANGED << stream_vars, seq_vars, pseq_vars, menu_vars, last_send,
                    restarts >>

---------------------------------------------------------------------------
(* MainWindow.send_command, called by the user and by the sequencer *)

\* longest list given to start_sequence by _run_calibration_sequence
MaxSequence == 2
\* the commands of such a list
SequenceCommands == { "1", "2" }
\* the commands the user sends
UserCommands == { "1", "esc" }
\* what InputDialog.exec() ends with: rejected, or accepted with a value
DialogResults == { <<>>, << "5" >> }
\* the commands that open the dialog in DATOS_MEDIDOR_MENU
DialogCommands == { "1", "2", "3", "4" }

\* the screen texts of the menus: keywords, no field
MenuTexts ==
    { [kw |-> k, meas |-> NoMeas, has_row5 |-> TRUE, row5 |-> BlankRow,
       percent |-> <<>>, indicac |-> <<>>] :
          k \in { {}, { "ENTRADAS", "CALIBRAR" }, { "DAT.MEDID." },
                  { "DATOS MEDIDOR" } } }

\* send_command(command) with sequence_manager.command_queue = queue and a
\* dialog that ends with `dialog`: the state manager after the call, the
\* path taken and the commands emitted to the worker
send_command(sm, queue, command, dialog) ==
    IF command = ""
    THEN [sm |-> sm, path |-> "none", worker |-> <<>>]
    ELSE IF /\ sm.current_state = "DATOS_MEDIDOR_MENU"
            /\ command \in DialogCommands
            /\ queue = <<>>
    THEN [sm |-> sm, path |-> "dialog", worker |-> << command >> \o dialog]
    ELSE [sm |-> process_command(sm, command), path |-> "normal",
          worker |-> << command >>]

\* the call send_command(command) made by `by`
Send(by, queue, command, dialog) ==
    LET r == send_command(Quiet(SM), queue, command, dialog)
    IN  /\ Len(r.sm.history) <= MaxHistory
        /\ last_send' = [by |-> by, command |-> command, path |-> r.path,
                         from |-> current_state,
                         to |-> r.sm.current_state,
                         history |-> r.sm.history, worker |-> r.worker]
        /\ IF r.path = "normal"
           THEN /\ SetSM(r.sm)
                /\ sm_op' = "process_command"
                /\ sm_arg' = command
                /\ sm_pre' = SnapshotSM
                /\ IF Cleared(r.sm) THEN ResetEmulator
                   ELSE UNCHANGED emu_all
           ELSE UNCHANGED << sm_all, emu_all >>

\* a menu button or the command field
UserSends ==
    /\ \E command \in UserCommands : \E dialog \in DialogResults :
          Send("user", command_queue, command, dialog)
    /\ UNCHANGED << stream_vars, seq_vars, pseq_vars, pipe_vars, menu_vars,
                    write_vars, reconnect, restarts >>

\* _send_next_command() with send_command connected to its signal: the
\* slot runs inside emit(), after popleft() and before timer.start()
SendNext(dialog) ==
    /\ SetSeq(_send_next_command([SeqMgr EXCEPT !.timer = FALSE]))
    /\ IF command_queue # <<>>
       THEN Send("sequence", Tail(command_queue), Head(command_queue),
                 dialog)
       ELSE UNCHANGED << last_send, sm_all, emu_all >>

\* _run_calibration_sequence(params): start_sequence(commands)
RunCalibrationSequence ==
    /\ command_queue = <<>>
    /\ ~timer
    /\ \E commands \in SeqsUpTo(SequenceCommands, MaxSequence) \ { <<>> } :
       \E dialog \in DialogResults :
          /\ SetSeq(start_sequence([SeqMgr EXCEPT !.out = <<>>], commands))
          /\ Send("sequence", Tail(commands), Head(commands), dialog)
          /\ seq_commands' = commands
    /\ seq_op' = "start_sequence"
    /\ seq_pre' = <<>>
    /\ UNCHANGED << stream_vars, pseq_vars, pipe_vars, menu_vars,
                    write_vars, reconnect, restarts >>

\* the sequencer's timer expires
SequenceTimeout ==
    /\ timer
    /\ \E dialog \in DialogResults : SendNext(dialog)
    /\ seq_op' = "timeout"
    /\ seq_pre' = seq_out
    /\ UNCHANGED seq_commands
    /\ UNCHANGED << stream_vars, pseq_vars, pipe_vars, menu_vars,
                    write_vars, reconnect, restarts >>

\* _process_screen_snapshot() on the screen of a menu
MenuSnapshot ==
    \E text \in MenuTexts :
        LET sm == process_screen_text(Quiet(SM), text)
        IN  /\ Len(sm.history) <= MaxHistory
            /\ SetSM(sm)
            /\ sm_op' = "process_screen_text"
            /\ sm_arg' = text
            /\ sm_pre' = SnapshotSM
            /\ UNCHANGED << emu_all, stream_vars, aux_vars >>

---------------------------------------------------------------------------
(* The emulator fed whole control items *)

\* the items that are to change nothing: carriage return, shift out and in,
\* CSI sequences with a final character other than H, C, D, K, ESC[K with
\* a parameter other than empty or 0, charset sequences, one-character
\* escapes
NeutralItems ==
    { << CR >>, << SO >>, << SI >>,
      << ESC, "[", "m" >>, << ESC, "[", "?", "2", "m" >>,
      << ESC, "[", "1", ";", "2", "m" >>,
      << ESC, "[", "1", "K" >>, << ESC, "[", "2", "K" >>,
      << ESC, "(", "A" >>, << ESC, ")", "0" >>, << ESC, "#", "6" >>,
      << ESC, "m" >>, << ESC, "A" >> }

\* the other items: a line feed, a bell, a letter, cursor positionings
OtherItems ==
    { << LF >>, << BEL >>, << "A" >>,
      << ESC, "[", "H" >>, << ESC, "[", "2", ";", "2", "H" >>,
      << ESC, "[", "C" >> }

\* what follows an item in the same call: nothing, or a letter
Followers == { <<>>, << "A" >> }

\* emulator.process_data(item + follower)
FeedItem ==
    \E item \in NeutralItems \cup OtherItems : \E f \in Followers :
        LET st == process_data(Emu, item \o f)
        IN  /\ st.cursor_pos[1] <= Rows - 1 + MaxOverflow
            /\ SetEmu(st)
            /\ op' = "process_data"
            /\ arg' = item \o f
            /\ ret' = <<>>
            /\ pre' = Snapshot
            /\ UNCHANGED << stream_vars, sm_all, aux_vars >>


---------------------------------------------------------------------------
(* The emulator, driven by process_data, reset and get_screen_text *)

Init ==
    /\ InitEmu
    /\ InitSM
    /\ start = Fresh
    /\ stream = <<>>
    /\ pending = <<>>
    /\ InitAux

Next ==
    \/ ProcessData
    \/ Reset
    \/ GetScreenText

Spec == Init /\ [][Next]_vars

\* the main window with its state manager and its sequencer
NextUI ==
    \/ UserSends
    \/ RunCalibrationSequence
    \/ SequenceTimeout
    \/ MenuSnapshot

SpecUI == Init /\ [][NextUI]_vars

\* the emulator fed whole items
NextItems ==
    \/ FeedItem
    \/ Reset
    \/ GetScreenText

SpecItems == Init /\ [][NextItems]_vars

---------------------------------------------------------------------------
(* A received stream, delivered to process_data in chunks of any size *)

\* the characters of the streams
StreamChar == {ESC, "[", "2", ";", "?", "H", "K", "(", "A", LF}

\* inputs that bring a new emulator to the states a stream is fed to
Preludes ==
    { <<>>, << "A" >>, << "A", "A" >>, << "A", LF, LF >>,
      << ESC >>, << ESC, "[" >>, << ESC, "[", "2" >>,
      << ESC, "[", "2", ";" >>, << ESC, "(" >> }

StartStates == { process_data(Fresh, p) : p \in Preludes }

\* a field of the parameters of ESC[r;cH and the number it stands for
Fields ==
    { [s |-> <<>>, v |-> 1], [s |-> << "0" >>, v |-> 0],
      [s |-> << "1" >>, v |-> 1], [s |-> << "2" >>, v |-> 2],
      [s |-> << "2", "2" >>, v |-> 22] }

\* the parameter run r;c (semi), or r alone (c absent)
PosParams ==
    { [r |-> f, c |-> g, semi |-> TRUE] : f \in Fields, g \in Fields }
        \cup { [r |-> f, c |-> [s |-> <<>>, v |-> 1], semi |-> FALSE] :
                    f \in Fields }

PosTexts == { << "A" >>, << "A", "A" >> }

\* ESC[r;cH followed by the text t
PosScript(p, t) ==
    << ESC, "[" >> \o p.r.s
        \o (IF p.semi THEN << ";" >> \o p.c.s ELSE <<>>)
        \o << "H" >> \o t

PosScripts == { PosScript(p, t) : p \in PosParams, t \in PosTexts }

InitStream ==
    /\ InitSM
    /\ \/ start \in StartStates /\ stream \in SeqsUpTo(StreamChar, MaxStream)
       \/ start = Fresh /\ stream \in PosScripts
    /\ pending = stream
    /\ InitAux
    /\ screen = start.screen
    /\ cursor_pos = start.cursor_pos
    /\ incomplete_data_buffer = start.buf
    /\ raised = "none"
    /\ op = "init"
    /\ arg = <<>>
    /\ ret = <<>>
    /\ pre = [screen |-> start.screen, cursor_pos |-> start.cursor_pos,
              buf |-> start.buf, op |-> "init", ret |-> <<>>]

NextStream == Deliver

SpecStream == InitStream /\ [][NextStream]_vars

---------------------------------------------------------------------------
(* The state manager, driven by screen texts and commands *)

InitSMSpec ==
    /\ InitEmu
    /\ \E file \in { "valid", "missing" } : InitSMWith(file)
    /\ start = Fresh
    /\ stream = <<>>
    /\ pending = <<>>
    /\ InitAux

NextSM ==
    \/ ProcessScreenText
    \/ ProcessCommand
    \/ ClearMonitor

SpecSM == InitSMSpec /\ [][NextSM]_vars

---------------------------------------------------------------------------
(* The state manager when the configuration file is not a state table *)

InitCfg ==
    /\ InitEmu
    /\ \E file \in ConfigFiles \ { "valid" } : InitSMWith(file)
    /\ start = Fresh
    /\ stream = <<>>
    /\ pending = <<>>
    /\ InitAux

SpecCfg == InitCfg /\ [][NextSM]_vars

---------------------------------------------------------------------------
(* Properties of the emulator *)

InGrid(cp) == cp[1] \in RowIdx /\ cp[2] \in ColIdx

\* the characters delivered so far
Delivered == SubSeq(stream, 1, Len(stream) - Len(pending))

C2_CursorInsideGrid == InGrid(cursor_pos)

OutsideWrites == { << "A" >>, << ESC, "[", "K" >>, << ESC, "[", "0", "K" >> }

\* C3 (the claim as stated): a character or an erase-in-line processed while
\* the cursor is outside the grid raises nothing and changes no cell.
C3_OutsideGridDropped ==
    (op = "process_data" /\ ~InGrid(pre.cursor_pos) /\ data \in OutsideWrites)
        => (raised = "none" /\ screen = pre.screen)

\* the buffer is empty or one unfinished sequence that begins with ESC
OnePartialSequence(b) ==
    \/ b = <<>>
    \/ b = << ESC >>
    \/ Len(b) = 2 /\ b[1] = ESC /\ b[2] \in CharsetIntro
    \/ /\ Len(b) >= 2 /\ b[1] = ESC /\ b[2] = "["
       /\ \A k \in 3 .. Len(b) : b[k] \in ParamChars

\* C4 (the claim as stated): no malformed or truncated escape sequence makes
\* process_data fail, and the carry-over buffer is empty or one unfinished
\* sequence.
C4_MalformedNeverFails ==
    raised # "ValueError" /\ OnePartialSequence(incomplete_data_buffer)

EraseSeqs == { << ESC, "[", "K" >>, << ESC, "[", "0", "K" >> }

\* C5: ESC[K or ESC[0K processed with the cursor at (r,c) inside the grid
\* blanks the cells (r,c..cols-1) and leaves the cells (r,0..c-1), every
\* other row and the cursor as they were.
C5_EraseInLine ==
    (op = "process_data" /\ data \in EraseSeqs /\ InGrid(pre.cursor_pos))
        => /\ raised = "none"
           /\ cursor_pos = pre.cursor_pos
           /\ \A r \in RowIdx : \A c \in ColIdx :
                 screen[r][c] =
                    IF r = pre.cursor_pos[1] /\ c >= pre.cursor_pos[2]
                    THEN " " ELSE pre.screen[r][c]

\* C5 witness: an erase at a cursor with text on both of its sides and text
\* in another row.
C5_Witness ==
    /\ op = "process_data" /\ data \in EraseSeqs /\ InGrid(pre.cursor_pos)
    /\ \E c \in ColIdx : c < pre.cursor_pos[2]
                            /\ pre.screen[pre.cursor_pos[1]][c] = "A"
    /\ \E c \in ColIdx : c >= pre.cursor_pos[2]
                            /\ pre.screen[pre.cursor_pos[1]][c] = "A"
    /\ \E r \in RowIdx : r # pre.cursor_pos[1]
                            /\ \E c \in ColIdx : screen[r][c] = "A"

\* C6: after reset() every cell is a space, the cursor is (0,0) and the
\* carry-over buffer is empty; the next process_data call gives what it gives
\* on a new emulator.
C6_ResetIsFresh ==
    /\ op = "reset" =>
          /\ screen = BlankScreen
          /\ cursor_pos = << 0, 0 >>
          /\ incomplete_data_buffer = <<>>
    /\ (op = "process_data" /\ pre.op = "reset") =>
          Emu = process_data(Fresh, arg)

\* C6 witness: a reset of an emulator that had text on the grid, a moved
\* cursor and a pending partial sequence.
C6_Witness ==
    /\ op = "reset"
    /\ pre.buf # <<>>
    /\ pre.screen # BlankScreen
    /\ pre.cursor_pos # << 0, 0 >>

\* C7: get_screen_text() leaves grid, cursor and carry-over buffer as they
\* were, and a second call right after a first returns the same text.
C7_PureRead ==
    op = "get_screen_text" =>
        /\ screen = pre.screen
        /\ cursor_pos = pre.cursor_pos
        /\ incomplete_data_buffer = pre.buf
        /\ pre.op = "get_screen_text" => ret = pre.ret

\* C7 witness: two reads in a row of a grid with text, a moved cursor and a
\* pending partial sequence.
C7_Witness ==
    /\ op = "get_screen_text" /\ pre.op = "get_screen_text"
    /\ screen # BlankScreen
    /\ cursor_pos # << 0, 0 >>
    /\ incomplete_data_buffer # <<>>
    /\ \E k \in 1 .. Len(ret) : ret[k] = "A"

Clamp(n, size) == Max(0, Min(n, size - 1))

\* the grid that holds t from (row, col) on and spaces elsewhere
TextAt(row, col, t) ==
    [r \in RowIdx |-> [c \in ColIdx |->
        IF r = row /\ c >= col /\ c < col + Len(t)
        THEN t[c - col + 1] ELSE " "]]

\* C8: on a new grid, ESC[r;cH followed by a text t that fits in the row
\* puts t at row r-1 from column c-1 on and leaves spaces elsewhere; an absent
\* or empty r or c counts as 1, values outside the grid are clamped.
C8_PositionedText ==
    \A p \in PosParams : \A t \in PosTexts :
        LET row == Clamp(p.r.v - 1, Rows)
            col == Clamp(p.c.v - 1, Cols)
        IN  (/\ start = Fresh /\ stream = PosScript(p, t) /\ pending = <<>>
             /\ col + Len(t) <= Cols)
                => (raised = "none" /\ screen = TextAt(row, col, t))

\* C8 witness: ESC[2;2HA, delivered in several calls, has put A at row 1,
\* column 1.
C8_Witness ==
    /\ start = Fresh /\ pending = <<>>
    /\ stream = << ESC, "[", "2", ";", "2", "H", "A" >>
    /\ pre.op = "process_data"
    /\ screen[1][1] = "A"


---------------------------------------------------------------------------
(* Properties of the state manager *)

\* the states in which a screen text is not matched against the keywords
Suppressing == { "CALIBRAR_DATA_ENTRY", "CALIBRAR_TABLE_VIEW" }

\* the positions in the order of the states with keywords, all in the text
Matching(text) ==
    { k \in 1 .. Len(States(config)) :
        /\ DetectionKeywords(StateOrder[k]) # {}
        /\ DetectionKeywords(StateOrder[k]) \subseteq text.kw }

Least(S) == CHOOSE k \in S : \A j \in S : k <= j

MovedTo(name) ==
    /\ current_state = name
    /\ history = Append(sm_pre.history, sm_pre.current_state)

Stayed ==
    /\ current_state = sm_pre.current_state
    /\ history = sm_pre.history

\* C9, as stated: outside the data-entry and live-table states,
\* process_screen_text(text) moves current_state to the first state in
\* declaration order whose keywords are all in the text and that differs
\* from current_state, pushing the old state onto history; when there is no
\* such state, current_state and history are unchanged.
C9_FirstDifferingMatch ==
    (sm_op = "process_screen_text" /\ sm_pre.current_state \notin Suppressing)
        => LET differing == { k \in Matching(sm_arg) :
                                StateOrder[k] # sm_pre.current_state }
           IN  IF differing # {}
               THEN MovedTo(StateOrder[Least(differing)])
               ELSE Stayed

\* C9, amended: outside the data-entry and live-table states,
\* process_screen_text(text) looks only at the first state in declaration
\* order that has keywords and has them all in the text; it moves to that
\* state, pushing the old state onto history, when that state differs from
\* current_state; when that state is current_state, or no state matches,
\* current_state and history are unchanged.
C9_FirstMatchWins ==
    (sm_op = "process_screen_text" /\ sm_pre.current_state \notin Suppressing)
        => IF /\ Matching(sm_arg) # {}
              /\ StateOrder[Least(Matching(sm_arg))] # sm_pre.current_state
           THEN MovedTo(StateOrder[Least(Matching(sm_arg))])
           ELSE Stayed

\* the text matches current_state first and a later state too: nothing moves
C9_Witness ==
    /\ sm_op = "process_screen_text"
    /\ sm_pre.current_state = "MAIN_MENU"
    /\ sm_arg.kw = { "ENTRADAS", "CALIBRAR", "CALIBRACION" }
    /\ current_state = "MAIN_MENU"
    /\ history = sm_pre.history

\* C10: in CALIBRAR_TABLE_VIEW process_screen_text never changes
\* current_state or history, whatever the text; in CALIBRAR_DATA_ENTRY the
\* only change it can make is the transition to CALIBRAR_MENU, and only for
\* a text that holds every detection keyword of CALIBRAR_MENU.
C10_Suppression ==
    sm_op = "process_screen_text"
        => /\ sm_pre.current_state = "CALIBRAR_TABLE_VIEW" => Stayed
           /\ sm_pre.current_state = "CALIBRAR_DATA_ENTRY"
                => /\ parsed_values = sm_pre.parsed_values
                   /\ \/ Stayed
                      \/ /\ MovedTo("CALIBRAR_MENU")
                         /\ DetectionKeywords("CALIBRAR_MENU")
                                \subseteq sm_arg.kw

\* a text with the keywords of another menu arrives in the live table
C10_Witness ==
    /\ sm_op = "process_screen_text"
    /\ sm_pre.current_state = "CALIBRAR_TABLE_VIEW"
    /\ sm_arg.kw = { "ENTRADAS", "CALIBRAR" }
    /\ current_state = "CALIBRAR_TABLE_VIEW"

\* the state manager before the last operation, with pv for parsed_values
Before(pv) ==
    [config |-> config, current_state |-> sm_pre.current_state,
     history |-> sm_pre.history, parsed_values |-> pv, events |-> <<>>,
     raised |-> "none"]

\* contents parsed_values can have: nothing parsed, everything parsed
PVAlternatives ==
    { [f \in FieldNames |-> Sentinel], [f \in FieldNames |-> << "7" >>] }

\* the state the last process_screen_text ended in is the one it ends in
\* from every other content of parsed_values
SameForAllParsed ==
    \A pv \in PVAlternatives :
        process_screen_text(Before(pv), sm_arg).current_state = current_state

\* the text of the last operation matches the keywords of one state only
UniqueMatch ==
    sm_op = "process_screen_text" /\ Cardinality(Matching(sm_arg)) = 1

TheMatch == StateOrder[Least(Matching(sm_arg))]

\* C11, as stated: for a text that matches the keyword set of exactly one
\* state S, process_screen_text ends with current_state = S, and the
\* resulting state is the same for every content of parsed_values.
C11_UniqueMatchReached ==
    UniqueMatch => current_state = TheMatch /\ SameForAllParsed

\* C11, amended: for a text that matches the keyword set of exactly one
\* state S, process_screen_text ends with current_state = S when it starts
\* outside CALIBRAR_TABLE_VIEW and CALIBRAR_DATA_ENTRY, or starts in
\* CALIBRAR_DATA_ENTRY with S = CALIBRAR_MENU; in the other cases
\* current_state stays as it was.  In every case the resulting state is the
\* same for every content of parsed_values.
C11_UniqueMatchUnlessSuppressed ==
    UniqueMatch
        => /\ SameForAllParsed
           /\ IF \/ sm_pre.current_state \notin Suppressing
                 \/ /\ sm_pre.current_state = "CALIBRAR_DATA_ENTRY"
                    /\ TheMatch = "CALIBRAR_MENU"
              THEN current_state = TheMatch
              ELSE current_state = sm_pre.current_state

\* a text of one menu arrives in another menu after values were parsed
C11_Witness ==
    /\ UniqueMatch
    /\ sm_pre.current_state = "MAIN_MENU"
    /\ sm_pre.parsed_values["X"] # Sentinel
    /\ sm_arg.kw = { "ENTRADAS", "DAT.MEDID." }
    /\ current_state = "ENTRADAS_MENU"

\* the last operation took the state manager out of the live table
LeftTable ==
    /\ sm_pre.current_state = "CALIBRAR_TABLE_VIEW"
    /\ current_state # "CALIBRAR_TABLE_VIEW"

\* C12: whenever current_state changes from CALIBRAR_TABLE_VIEW to another
\* state, by esc, reset, a transition or a clear, parsed_values['di'] and
\* parsed_values['ds'] are both "---" afterwards.
C12_LeavingTableResetsDiDs ==
    LeftTable
        => parsed_values["di"] = Sentinel /\ parsed_values["ds"] = Sentinel

\* esc leaves the live table after di was read there
C12_Witness ==
    /\ LeftTable
    /\ sm_op = "process_command"
    /\ sm_arg = "esc"
    /\ sm_pre.parsed_values["di"] # Sentinel
    /\ current_state = "MAIN_MENU"

\* the table columns other than di and ds
OtherTableFields == TableFields \ { "di", "ds" }

\* C13: whenever current_state changes from CALIBRAR_TABLE_VIEW to another
\* state, the other table-column fields (I1, calib_i_percent, calib_l123,
\* calib_cos, calib_go, calib_r) are "---" afterwards too.
C13_LeavingTableResetsAll ==
    LeftTable => \A f \in OtherTableFields : parsed_values[f] = Sentinel

\* the last operation was the command reset, esc, or another one
IsReset == sm_op = "process_command" /\ sm_arg \in { "reset", "RESET" }
IsEsc == sm_op = "process_command" /\ sm_arg = "esc"
IsOther == sm_op = "process_command" /\ ~IsReset /\ ~IsEsc

\* the positions in the log of the last operation where e happened
At(e) == { k \in 1 .. Len(events) : events[k].e = e }

\* what set_state pushes when it leaves `from` for another state
Pushed(from, to) == IF from = to THEN <<>> ELSE << from >>

\* C14: process_command("reset"), in any letter case and from any state,
\* ends with current_state = MAIN_MENU, emits a clear-screen request, and
\* leaves in history no entry pushed before the call: history holds only
\* what the clear and the move to MAIN_MENU push during the call.
C14_Reset ==
    IsReset
        => /\ current_state = "MAIN_MENU"
           /\ At("clear_screen_requested") = { 1 }
           /\ history = Pushed(sm_pre.current_state, "INIT") \o << "INIT" >>

\* RESET arrives deep in the menus, with a history of two entries or more
C14_Witness ==
    /\ IsReset
    /\ sm_arg = "RESET"
    /\ sm_pre.current_state = "CALIBRAR_TABLE_VIEW"
    /\ Len(sm_pre.history) >= 2
    /\ history = << "CALIBRAR_TABLE_VIEW", "INIT" >>

\* C15: process_command("esc") in MAIN_MENU changes nothing (state,
\* history, parsed_values) and emits no clear-screen request; from any other
\* state it emits a clear-screen request and ends in MAIN_MENU.
C15_Esc ==
    IsEsc
        => IF sm_pre.current_state = "MAIN_MENU"
           THEN /\ Stayed
                /\ parsed_values = sm_pre.parsed_values
                /\ events = <<>>
           ELSE /\ current_state = "MAIN_MENU"
                /\ At("clear_screen_requested") = { 1 }

\* esc arrives in a menu below the main menu
C15_Witness ==
    /\ IsEsc
    /\ sm_pre.current_state = "ENTRADAS_MENU"
    /\ current_state = "MAIN_MENU"
    /\ At("clear_screen_requested") # {}

\* the entry of the transition table of the state before the last
\* operation for its command, as a set: empty when there is none
Entry ==
    IF Defined(config, sm_pre.current_state)
    THEN { t \in Transitions(sm_pre.current_state) : t.cmd = sm_arg }
    ELSE {}

\* C16: a command other than reset and esc that is a key of the current
\* state's transition table ends with current_state at the configured
\* target; in the structured form with clear_screen set, the clear-screen
\* request is emitted before the state changes to the target; otherwise no
\* clear-screen request is emitted.
C16_TableTransition ==
    (IsOther /\ Entry # {})
        => \A t \in Entry :
            /\ current_state = t.target
            /\ IF t.dict /\ t.clear_screen
               THEN /\ At("clear_screen_requested") = { 1 }
                    /\ events[Len(events)] =
                          [e |-> "update_menu_config", s |-> t.target]
               ELSE At("clear_screen_requested") = {}

\* the structured transition of the main menu that asks for a clear
C16_Witness ==
    /\ IsOther
    /\ sm_arg = "2"
    /\ sm_pre.current_state = "MAIN_MENU"
    /\ current_state = "CALIBRAR_MENU"
    /\ At("clear_screen_requested") = { 1 }

\* C17: a command that is neither reset nor esc and has no entry in the
\* current state's transition table leaves current_state, history and
\* parsed_values unchanged, emits no clear-screen request and raises no
\* error.
C17_UnknownCommand ==
    (IsOther /\ Entry = {})
        => /\ Stayed
           /\ parsed_values = sm_pre.parsed_values
           /\ At("clear_screen_requested") = {}
           /\ sm_raised = "none"

\* a command of another menu's table arrives where it means nothing
C17_Witness ==
    /\ IsOther
    /\ sm_arg = "2"
    /\ sm_pre.current_state = "ENTRADAS_MENU"
    /\ current_state = "ENTRADAS_MENU"

\* the names a state can have: INIT and those of the modelled table
StateNames == ConfigStates \cup { "INIT" }

\* history before the last operation is the beginning of history after it
HistoryKept ==
    /\ Len(history) >= Len(sm_pre.history)
    /\ SubSeq(history, 1, Len(sm_pre.history)) = sm_pre.history

\* C18: set_state(s) with s = current_state changes nothing and sends no
\* menu notification; with another s it appends exactly the old state to
\* history, sets current_state to s and notifies the menu once.  No
\* operation other than the reset command shortens history.
C18_SetState ==
    /\ \A s \in StateNames :
          LET r == set_state(Quiet(SM), s)
          IN  IF s = current_state
              THEN r = Quiet(SM)
              ELSE /\ r.current_state = s
                   /\ r.history = Append(history, current_state)
                   /\ Len(r.events) = 1
                   /\ r.events[1].e = "update_menu_config"
    /\ ~IsReset => HistoryKept

\* the clear button calls set_state('INIT') from a menu
C18_Witness ==
    /\ sm_op = "clear_monitor"
    /\ sm_pre.current_state = "CALIBRAR_MENU"
    /\ current_state = "INIT"
    /\ history = Append(sm_pre.history, "CALIBRAR_MENU")
    /\ Len(events) = 1

\* C19: after any sequence of process_command, process_screen_text and
\* clear operations, current_state is INIT or a key of the configured state
\* table.
C19_StateIsConfigured ==
    current_state = "INIT" \/ Defined(config, current_state)

\* C20: when loading the configuration fails (missing file or invalid
\* structure), process_screen_text raises no error for any screen text and
\* never moves current_state away from INIT.
C20_FailedLoadIsQuiet ==
    (config # "loaded" /\ sm_op = "process_screen_text")
        => /\ sm_raised = "none"
           /\ sm_pre.current_state = "INIT" => current_state = "INIT"

---------------------------------------------------------------------------
(* The write of an ordinary character *)

\* one ordinary character was processed, outside any escape sequence, while
\* the cursor column was at or beyond the number of columns
WroteBeyondLastColumn ==
    /\ op = "process_data"
    /\ pre.buf = <<>>
    /\ arg \in { << c >> : c \in Text }
    /\ pre.cursor_pos[2] >= Cols

\* C30 (the claim as stated): an ordinary character processed while the
\* cursor column is at or beyond the last writable position leaves every
\* cell unchanged and still advances the cursor column by one.
C30_BeyondLastColumnAdvances ==
    WroteBeyondLastColumn
        => /\ screen = pre.screen
           /\ cursor_pos = << pre.cursor_pos[1], pre.cursor_pos[2] + 1 >>

\* C30 (amended): such a character leaves every cell unchanged and leaves
\* the cursor where it was; nothing is raised.
C30_BeyondLastColumnDropped ==
    WroteBeyondLastColumn
        => /\ screen = pre.screen
           /\ cursor_pos = pre.cursor_pos
           /\ raised = "none"

\* a character arrived with the cursor on a grid row, just past its last column
C30_Witness ==
    /\ WroteBeyondLastColumn
    /\ pre.cursor_pos[1] \in RowIdx
    /\ pre.cursor_pos[2] = Cols
    /\ \E r \in RowIdx : \E c \in ColIdx : screen[r][c] # " "

---------------------------------------------------------------------------
(* The fields read from the screen text *)

\* the states in which X, K, M, T and U1 are read
MeasStates == { "DATOS_MEDIDOR_MENU", "CALIBRAR_MENU", "CALIBRAR_TABLE_VIEW" }

\* C28: for each of X, K, M, T, U1, process_screen_text overwrites the
\* stored value only when current_state is DATOS_MEDIDOR_MENU, CALIBRAR_MENU
\* or CALIBRAR_TABLE_VIEW and the text holds a match for the field; in every
\* other case the stored value is left as it was, never reverted to "---",
\* and nothing is raised.
C28_MeasurementFields ==
    sm_op = "process_screen_text"
        => /\ \A f \in MeasFields :
                parsed_values[f] =
                    IF /\ sm_pre.current_state \in MeasStates
                       /\ sm_arg.meas[f] # <<>>
                    THEN sm_arg.meas[f]
                    ELSE sm_pre.parsed_values[f]
           /\ sm_raised = "none"

\* a value of X read earlier survives a text without X, read in a state
\* in which X is parsed
C28_Witness ==
    /\ sm_op = "process_screen_text"
    /\ sm_pre.current_state \in MeasStates
    /\ sm_pre.parsed_values["X"] # Sentinel
    /\ sm_arg.meas["X"] = <<>>
    /\ parsed_values["X"] = sm_pre.parsed_values["X"]

\* the states in which the table row is read
TableStates == { "CALIBRAR_MENU", "CALIBRAR_TABLE_VIEW" }

\* line[start:end].strip() of the last text, "---" when the text has fewer
\* than six lines or the stripped range is empty
ColumnOrSentinel(f) ==
    IF sm_arg.has_row5 /\ Strip(sm_arg.row5[f]) # <<>>
    THEN Strip(sm_arg.row5[f])
    ELSE Sentinel

\* C29: after process_screen_text runs in CALIBRAR_MENU or
\* CALIBRAR_TABLE_VIEW, each table-column field equals the stripped content
\* of its column range on screen row 5 when that is non-empty and "---"
\* otherwise, also when the screen has fewer than six lines, whatever value
\* the field held before.
C29_TableFields ==
    (sm_op = "process_screen_text" /\ sm_pre.current_state \in TableStates)
        => \A f \in TableFields : parsed_values[f] = ColumnOrSentinel(f)

\* a value of I1 read earlier is cleared by a text of fewer than six lines
C29_Witness ==
    /\ sm_op = "process_screen_text"
    /\ sm_pre.current_state \in TableStates
    /\ sm_pre.parsed_values["I1"] = << "5" >>
    /\ ~sm_arg.has_row5
    /\ parsed_values["I1"] = Sentinel

\* C29, the other case: a column that holds text is stored stripped
C29_WitnessRead ==
    /\ sm_op = "process_screen_text"
    /\ sm_pre.current_state \in TableStates
    /\ sm_arg.has_row5
    /\ sm_arg.row5["di"] = << " ", "5", " " >>
    /\ parsed_values["di"] = << "5" >>

---------------------------------------------------------------------------
(* The sequencer of whole commands *)

NextSeq ==
    \/ StartSequence
    \/ SeqTimeout

SpecSeq == Init /\ [][NextSeq]_vars

\* the signals a whole run of the list emits
SeqExpected(commands) ==
    [k \in 1 .. Len(commands) + 1 |->
        IF k <= Len(commands)
        THEN [sig |-> "send_command", v |-> commands[k]]
        ELSE [sig |-> "sequence_finished", v |-> ""]]

\* the number of commands emitted in a log
SentIn(log) ==
    Cardinality({ k \in 1 .. Len(log) : log[k].sig = "send_command" })

---------------------------------------------------------------------------
(* The sequencer of characters *)

NextPSeq ==
    \/ StartProtocolSequence
    \/ CharTimeout
    \/ FieldTimeout

SpecPSeq == Init /\ [][NextPSeq]_vars

\* the signals of the characters of a text, one send_char each
CharSignals(text) ==
    [k \in 1 .. Len(text) |-> [sig |-> "send_char", v |-> text[k]]]

EnterSignal == << [sig |-> "send_enter", v |-> ""] >>
FinishedSignal == << [sig |-> "sequence_finished", v |-> ""] >>

\* the signals of a list of fields: the characters of each, then one Enter
RECURSIVE FieldSignals(_)
FieldSignals(fields) ==
    IF fields = <<>> THEN <<>>
    ELSE CharSignals(Head(fields)) \o EnterSignal
            \o FieldSignals(Tail(fields))

\* the signals a whole run of the fields emits
PSeqExpected(fields) == FieldSignals(fields) \o FinishedSignal

\* the number of characters emitted in a log
CharsIn(log) ==
    Cardinality({ k \in 1 .. Len(log) : log[k].sig = "send_char" })

\* the signal emitted last
LastSignal == pseq_out[Len(pseq_out)].sig

\* C22: a character-level sequence started once and run to completion
\* emits, for each field in queue order, the field's characters one per
\* timer step and in order, then exactly one send_enter; it waits the
\* inter-field timer only between fields, emits sequence_finished exactly
\* once after the last field's Enter, and nothing afterwards.
C22_CharacterSequence ==
    pseq_op # "init" =>
        \* what was emitted so far is the beginning of the whole run
        /\ Len(pseq_out) <= Len(PSeqExpected(pseq_fields))
        /\ pseq_out = SubSeq(PSeqExpected(pseq_fields), 1, Len(pseq_out))
        \* a step emits at most one character
        /\ CharsIn(pseq_out) <= CharsIn(pseq_pre) + 1
        \* the character timer runs after a character, the field timer
        \* after an Enter that more fields follow
        /\ char_timer => LastSignal = "send_char"
        /\ field_timer => LastSignal = "send_enter" /\ field_queue # <<>>
        /\ ~(char_timer /\ field_timer)
        \* what is still to come is what the queues hold
        /\ char_timer =>
              PSeqExpected(pseq_fields) =
                  pseq_out \o CharSignals(char_queue) \o EnterSignal
                           \o PSeqExpected(field_queue)
        /\ field_timer =>
              PSeqExpected(pseq_fields) =
                  pseq_out \o PSeqExpected(field_queue)
        \* when no timer runs the run is complete, and nothing follows
        /\ (~char_timer /\ ~field_timer) =>
              pseq_out = PSeqExpected(pseq_fields)

\* two fields of two characters have run to their end, the second one
\* started by the field timer
C22_Witness ==
    /\ Len(pseq_fields) = MaxFields
    /\ \A k \in 1 .. MaxFields : Len(pseq_fields[k]) = MaxFieldLen
    /\ pseq_op = "char_timeout"
    /\ pseq_out = PSeqExpected(pseq_fields)
    /\ ~char_timer /\ ~field_timer

---------------------------------------------------------------------------
(* The path from the port to the state manager *)

NextPipe ==
    \/ SerialRead
    \/ DisplayData
    \/ Tick
    \/ ProcessScreenSnapshot
    \/ ClearMonitor

SpecPipe == Init /\ [][NextPipe]_vars

\* C23 (the claim as stated): chunks that arrive with gaps shorter than the
\* debounce interval cause exactly one process_screen_text call, made after
\* the last of them and on the grid that reflects all of them;
\* process_screen_text is never called while a younger chunk is still
\* inside its debounce interval.
C23_Debounce ==
    \* every chunk restarts the timer, so a call is always still to come,
    \* a full interval after the youngest chunk
    /\ op = "process_data" => processing_timer = Interval - age
    \* the call is made when the youngest chunk is a full interval old and
    \* was processed to its end, and the timer does not fire again
    /\ op = "get_screen_text" =>
          age = Interval /\ raised = "none" /\ processing_timer = Inactive

\* C24 (the claim as stated): a debounce timer armed before a clear never
\* fires process_screen_text against the just-reset grid; after the clear,
\* process_screen_text runs only once new data has arrived and its own
\* debounce interval has elapsed.
C24_ClearCancelsTimer ==
    \* the emulator operation before a snapshot is a process_data, never
    \* a reset
    op = "get_screen_text" => pre.op = "process_data"

RECURSIVE Concat(_)
Concat(chunks) ==
    IF chunks = <<>> THEN <<>> ELSE Head(chunks) \o Concat(Tail(chunks))

\* C25 (the claim as stated): the concatenation of the chunks handed to
\* process_data equals the text decoded from the bytes read from the port,
\* in arrival order, with no character dropped, added or reordered.
C25_LosslessQueue == handed \o Concat(inbox) = port_text

---------------------------------------------------------------------------
(* The buttons of the menu *)

NextMenu ==
    \/ UpdateMenu
    \/ MenuSetState

SpecMenu == Init /\ [][NextMenu]_vars

\* the last call was an update_menu that computed the options of the
\* screen: the state has a parsing branch and the screen its keyword
Computed ==
    /\ menu_op = "update_menu"
    /\ menu_state \in MenuStates
    /\ Gate(menu_state, menu_arg)

\* C27 (the claim as stated): the button list is rebuilt if and only if the
\* option tuple computed from the current screen differs from the tuple
\* last rendered: equal options cause no rebuild, any difference (options
\* that disappeared included) causes one.
C27_RebuildIffDiffers ==
    Computed => (rebuilt <=> menu_arg.matches # menu_pre.buttons)

\* C27 (amended): the button list is rebuilt if and only if the options
\* were computed, at least one option was found, and the tuple found
\* differs from the tuple last rendered, both taken in sorted order in
\* DATOS_MEDIDOR_MENU and CALIBRAR_MENU; a rebuild draws the options found,
\* and without one the buttons stay as they were.
C27_RebuildIffNewOptions ==
    menu_op = "update_menu" =>
        /\ rebuilt <=>
              /\ Computed
              /\ menu_arg.matches # <<>>
              /\ Key(menu_state, menu_arg.matches)
                    # Key(menu_state, menu_pre.buttons)
        /\ buttons = IF rebuilt THEN menu_arg.matches ELSE menu_pre.buttons

\* the options drawn disappeared from the screen and the buttons stayed
C27_Witness ==
    /\ Computed
    /\ menu_pre.buttons # <<>>
    /\ menu_arg.matches = <<>>
    /\ ~rebuilt
    /\ buttons = menu_pre.buttons

\* C27, the other cases: a different option tuple was drawn anew
C27_WitnessRebuilt ==
    /\ Computed
    /\ menu_pre.buttons # <<>>
    /\ rebuilt
    /\ buttons # menu_pre.buttons

---------------------------------------------------------------------------
(* The bytes written to the port *)

NextWrite ==
    \/ IssueCommand
    \/ WriteCommand
    \/ OpenPort
    \/ ClosePort

SpecWrite == Init /\ [][NextWrite]_vars

\* the command is reset, in any letter case
IsResetText(command) == LowerText(command) = << "r", "e", "s", "e", "t" >>

\* the bytes the claim says a command is sent as: 0x03 for reset, the
\* text and one carriage return for every other command
ExpectedBytes(command) ==
    IF IsResetText(command) THEN << << "byte", ETX >> >>
    ELSE [k \in 1 .. Len(command) + 1 |->
             IF k <= Len(command) THEN << "byte", command[k] >>
             ELSE << "byte", CR >>]

\* the bytes of the first n write_command calls, in the order of the calls
RECURSIVE Transmitted(_)
Transmitted(n) ==
    IF n = 0 THEN <<>> ELSE Transmitted(n - 1) \o writes[n].result.bytes

\* the calls were made in the order the commands were issued, and the port
\* received what the calls wrote, in that order
InOrderIssued ==
    /\ Len(writes) + Len(outbox) = Len(issued)
    /\ \A k \in 1 .. Len(writes) : writes[k].command = issued[k]
    /\ wire = Transmitted(Len(writes))

IsAscii(command) == \A k \in 1 .. Len(command) : command[k] \in AsciiChars

---------------------------------------------------------------------------
(* Control characters and sequences without effect *)

\* the characters that are neither printable nor a space
ControlChars == { ESC, LF, CR, SO, SI, BEL }

\* C31 (the claim as stated): after any sequence of process_data calls on
\* any input, control characters such as BEL included, every grid cell
\* holds one character that is printable or a space.
C31_CellsPrintable ==
    \A r \in RowIdx : \A c \in ColIdx : screen[r][c] \notin ControlChars

\* the emulator before the last operation
PreEmu ==
    [screen |-> pre.screen, cursor_pos |-> pre.cursor_pos, buf |-> pre.buf,
     raised |-> "none"]

\* the emulator before the last operation, one row further down
PreEmuNextRow == [PreEmu EXCEPT !.cursor_pos[1] = @ + 1]

\* the emulator is st after a follower was processed: as st when there is
\* none, with the letter written at st's cursor when there is one
AsAfter(st, f) ==
    IF f = <<>>
    THEN /\ screen = st.screen
         /\ cursor_pos = st.cursor_pos
         /\ incomplete_data_buffer = <<>>
         /\ raised = "none"
    ELSE Emu = Ordinary(st, f[1])

\* C32: carriage return, 0x0E, 0x0F, a CSI sequence whose final letter is
\* not H, C, D or K, ESC[K with a parameter other than empty or 0, a
\* charset sequence and a one-character escape each leave every cell and
\* the cursor unchanged and consume exactly their own characters; a line
\* feed leaves every cell and the cursor column unchanged and increases the
\* cursor row by one.
C32_NeutralItems ==
    (op = "process_data" /\ pre.buf = <<>>) =>
        \A f \in Followers :
            /\ \A item \in NeutralItems :
                    arg = item \o f => AsAfter(PreEmu, f)
            /\ arg = << LF >> \o f => AsAfter(PreEmuNextRow, f)

\* ESC[2K and a letter arrived in one call on a grid that held a letter:
\* nothing was erased and the letter was written at the cursor
C32_Witness ==
    /\ op = "process_data"
    /\ arg = << ESC, "[", "2", "K", "A" >>
    /\ \E r \in RowIdx : \E c \in ColIdx : pre.screen[r][c] = "A"
    /\ InGrid(pre.cursor_pos)
    /\ screen[pre.cursor_pos[1]][pre.cursor_pos[2]] = "A"
    /\ cursor_pos = << pre.cursor_pos[1], pre.cursor_pos[2] + 1 >>

\* C32, the line feed: the row grew by one, column and cells stayed
C32_WitnessLineFeed ==
    /\ op = "process_data"
    /\ arg = << LF >>
    /\ pre.cursor_pos[2] > 0
    /\ cursor_pos = << pre.cursor_pos[1] + 1, pre.cursor_pos[2] >>
    /\ screen = pre.screen

---------------------------------------------------------------------------
(* The shape of the grid *)

\* C39: after construction, reset() and any sequence of process_data
\* calls the grid has exactly Rows rows of exactly Cols cells, and
\* get_screen_text() returns Rows lines of Cols characters each: a text of
\* Rows * Cols characters and Rows - 1 line feeds, the line feeds exactly
\* after every Cols characters.
C39_GridShape ==
    /\ DOMAIN screen = RowIdx
    /\ \A r \in RowIdx : DOMAIN screen[r] = ColIdx
    /\ op = "get_screen_text" =>
          /\ Len(ret) = Rows * Cols + Rows - 1
          /\ \A k \in 1 .. Len(ret) :
                (ret[k] = LF) <=> (k % (Cols + 1) = 0)

\* C39 witness: the text was read after data that wrote on the grid and
\* moved the cursor below the last row.
C39_Witness ==
    /\ op = "get_screen_text"
    /\ pre.op = "process_data"
    /\ screen # BlankScreen
    /\ cursor_pos[1] >= Rows

---------------------------------------------------------------------------
(* Extraction precedes detection *)

\* C36: process_screen_text extracts fields according to the state held
\* when the call starts: a call that moves current_state from a state in
\* which nothing is read into DATOS_MEDIDOR_MENU or CALIBRAR_MENU leaves X,
\* K, M, T, U1 and the table fields as they were, whatever the text holds.
C36_ExtractionUsesStartState ==
    ( /\ sm_op = "process_screen_text"
      /\ sm_pre.current_state \notin MeasStates
      /\ current_state \in { "DATOS_MEDIDOR_MENU", "CALIBRAR_MENU" } )
        => \A f \in MeasFields \cup TableFields :
                parsed_values[f] = sm_pre.parsed_values[f]

\* a text with the keyword of CALIBRAR_MENU, a value of X and a table row
\* moved the state into CALIBRAR_MENU and neither was stored
C36_Witness ==
    /\ sm_op = "process_screen_text"
    /\ sm_pre.current_state \notin MeasStates
    /\ current_state = "CALIBRAR_MENU"
    /\ sm_arg.meas["X"] # <<>>
    /\ sm_arg.has_row5 /\ Strip(sm_arg.row5["di"]) # <<>>
    /\ parsed_values["X"] = Sentinel
    /\ parsed_values["di"] = Sentinel

\* C36, the other target: the text moved the state into DATOS_MEDIDOR_MENU
\* and its value of X was not stored
C36_WitnessDatos ==
    /\ sm_op = "process_screen_text"
    /\ sm_pre.current_state \notin MeasStates
    /\ current_state = "DATOS_MEDIDOR_MENU"
    /\ sm_arg.meas["X"] # <<>>
    /\ parsed_values["X"] = Sentinel

---------------------------------------------------------------------------
(* The commands sent by the main window *)

\* the last command sent moved the state manager from state a to state b
\* by a transition without clear_screen, and the state manager has not
\* moved since
MovedByCommand(a, b) ==
    /\ last_send.path = "normal"
    /\ last_send.from = a
    /\ last_send.to = b
    /\ a # b
    /\ \E t \in Transitions(a) :
            /\ t.cmd = Lower(last_send.command)
            /\ t.target = b
            /\ ~t.clear_screen
    /\ sm_pre.current_state = b
    /\ sm_pre.history = last_send.history

\* the text holds every detection keyword of the state
Shows(text, name) ==
    /\ DetectionKeywords(name) # {}
    /\ DetectionKeywords(name) \subseteq text.kw

\* C33 (the claim as stated): a command-driven transition from state A to
\* state B without clear_screen is not undone by a screen text that still
\* holds A's detection keywords and not B's: process_screen_text on such a
\* text leaves current_state = B.
C33_CommandNotUndone ==
    sm_op = "process_screen_text" =>
        \A a, b \in ConfigStates :
            (MovedByCommand(a, b) /\ Shows(sm_arg, a) /\ ~Shows(sm_arg, b))
                => current_state = b

\* C38 (the claim as stated): every command dispatched by the sequencer of
\* whole commands, the last of the list included, is passed to
\* process_command and then to the serial worker and never takes the
\* dialog path of send_command, whatever the current state is.
C38_SequenceNeverAsks ==
    last_send.by = "sequence" =>
        /\ last_send.path = "normal"
        /\ last_send.worker = << last_send.command >>

---------------------------------------------------------------------------
(* The end of a sequence of whole commands *)

\* a timer that was started expires: the event loop of the main window
\* runs as long as the application does
FairSpecSeq == Init /\ [][NextSeq]_vars /\ WF_vars(SeqTimeout)

\* the sequence_finished notifications of the sequence started last
FinishedCount ==
    Cardinality({ k \in 1 .. Len(seq_out) :
                    seq_out[k].sig = "sequence_finished" })

\* C35 (the claim as stated): every start_sequence call on the sequencer of
\* whole commands, one with an empty list included, is eventually followed
\* by exactly one sequence_finished notification.
C35_EverySequenceFinishes ==
    /\ [](FinishedCount <= 1)
    /\ (seq_op = "start_sequence") ~> (FinishedCount = 1)

\* for a list that is not empty the notification does arrive, once
C35_NonEmptySequenceFinishes ==
    /\ [](FinishedCount <= 1)
    /\ (seq_op = "start_sequence" /\ seq_commands # <<>>)
            ~> (FinishedCount = 1)

---------------------------------------------------------------------------
(* A sequence of characters started while another is running *)

NextPSeqRestart ==
    \/ StartProtocolSequence
    \/ RestartProtocolSequence
    \/ CharTimeout
    \/ FieldTimeout

SpecPSeqRestart == Init /\ [][NextPSeqRestart]_vars

\* C34 (the claim as stated): start_sequence on the sequencer of characters
\* while an earlier sequence is in progress discards the earlier sequence:
\* from then on only the new fields are emitted, each field's characters
\* complete and in order followed by one Enter, and sequence_finished once
\* for the new sequence.  pseq_out holds what was emitted since the call.
C34_RestartDiscardsEarlier ==
    restarts > 0 =>
        /\ Len(pseq_out) <= Len(PSeqExpected(pseq_fields))
        /\ pseq_out = SubSeq(PSeqExpected(pseq_fields), 1, Len(pseq_out))
        /\ (~char_timer /\ ~field_timer) =>
              pseq_out = PSeqExpected(pseq_fields)

---------------------------------------------------------------------------
(* A serial worker started again *)

NextReconnect ==
    \/ SerialRead
    \/ DisplayData
    \/ Tick
    \/ ProcessScreenSnapshot
    \/ StartSerialWorker

SpecReconnect == Init /\ [][NextReconnect]_vars

\* C37 (the claim as stated): after a reconnect has reset the grid and
\* forced the state machine to INIT, no chunk emitted by the previous
\* serial worker is processed into the grid: every character handed to
\* process_data after the reset comes from the new connection.  The
\* characters handed over are numbered in the order of delivery; those up
\* to reconnect.handed + reconnect.queued come from the previous worker.
C37_NoChunkOfPreviousWorker ==
    reconnect.n > 0 =>
        \A k \in reconnect.handed + 1 .. Len(handed) :
            k > reconnect.handed + reconnect.queued

=============================================================================
